---- MODULE Spec2Model ----
(***************************************************************************)
(* Verification model of the WarehouseManagement application (Flask +      *)
(* SQLAlchemy).  The database tables are the state; every request handler  *)
(* is one atomic action (one request = one transaction, committed at the    *)
(* end of the handler or not at all).                                       *)
(*                                                                          *)
(* Quantities are Float columns in the code; the model uses integers, i.e.  *)
(* exact arithmetic on whole units.  Timestamps, notes, user ids, flash     *)
(* texts, the is_active flags of items and locations, machine status and    *)
(* production logs are not modelled.                                        *)
(***************************************************************************)
EXTENDS Integers, Sequences, FiniteSets, Bags, TLC

\* ------------------------------------------------------------------ bounds
\* largest quantity a request submits
MaxQty == 2
\* the ledger holds at most this many StockMovement rows
MaxMovements == 2
\* sales order ids run up to this number
MaxOrderId == 2
\* a sales order holds at most this many lines
MaxLines == 1
\* the delivery table holds at most this many rows
MaxDeliveries == 2
\* the production order table holds at most this many rows
MaxProdOrders == 1
\* an uploaded CSV file holds at most this many rows
MaxRows == 3
\* a file in hand is imported at most this many times
MaxRuns == 2
\* a quote or an item has at most this many cavities
MaxCavities == 2
\* the largest quantity a quote is made for
MaxQuantity == 4
\* a quote has at most this many NULL costing columns, unless all are NULL
MaxMissing == 2
\* the schedule holds at most this many jobs
MaxJobs == 1
\* the largest sequence number a job is given
MaxSequence == 2
\* requests handled at the same time
MaxRequests == 2

\* master data: the Item and Location rows that exist (ids)
ItemIds == {1, 2}
LocationIds == {1, 2}
MachineIds == {1, 2}
\* 0 stands for a missing / NULL id in a request or a column
NoId == 0
\* quantities a form can submit: negative, zero, positive
QtyInputs == (0 - 1) .. MaxQty

\* the requests submitted to the add / remove / adjust handlers: every item,
\* location and quantity, and requests with the item or the location missing
StockRequests ==
    [item_id : ItemIds, location_id : LocationIds, quantity : QtyInputs]
    \cup {[item_id |-> NoId, location_id |-> 1, quantity |-> 1],
          [item_id |-> 1, location_id |-> NoId, quantity |-> 1]}

\* the requests submitted to the move handlers
MoveRequests ==
    [item_id : ItemIds, from_location_id : LocationIds,
     to_location_id : LocationIds, quantity : QtyInputs]
    \cup {[item_id |-> NoId, from_location_id |-> 1, to_location_id |-> 2, quantity |-> 1],
          [item_id |-> 1, from_location_id |-> NoId, to_location_id |-> 2, quantity |-> 1],
          [item_id |-> 1, from_location_id |-> 1, to_location_id |-> NoId, quantity |-> 1]}

VARIABLES
    levels,      \* StockLevel rows: <<item_id, location_id>> -> quantity
    movements,   \* StockMovement rows: the bag of ledger rows (append-only)
    orders,      \* SalesOrder rows with their SalesOrderLine rows: id -> record
    deliveries,  \* Delivery rows
    prodOrders,  \* ProductionOrder rows: id -> record
    jobs,        \* ScheduledJob rows: id -> record
    sortings,    \* AwaitingSorting rows, by id (never deleted)
    quotes,      \* Quote rows: id -> record
    items,       \* Item rows (costing columns): id -> record
    shiftLogs,   \* ShiftLog rows: id -> record
    sessions,    \* the requests in flight: what each has read and will write
    dataType,    \* the data type the administrator imports and exports
    records,     \* the rows of that type's table: id -> record
    refCodes,    \* codes present in the tables an item row refers to
    csv,         \* the CSV file in hand: a sequence of rows (header -> cell)
    origin,      \* where that file came from: "none", "upload" or "export"
    snapshot,    \* the table when the file was exported or first imported
    results,     \* the results of the imports of that file, in order
    response     \* the last request and its outcome

stockVars == <<levels, movements>>
dataVars == <<dataType, records, refCodes, csv, origin, snapshot, results>>
officeVars == <<quotes, items, shiftLogs, sessions, dataVars>>
salesVars == <<orders, deliveries, officeVars>>
prodVars == <<prodOrders, jobs, sortings>>
vars == <<levels, movements, orders, deliveries, quotes, items, shiftLogs, sessions,
          prodOrders, jobs, sortings, dataVars, response>>

\* ------------------------------------------------------------------ helpers
\* StockLevel.query.filter_by(item_id, location_id).first() is not None
HasLevel(lv, i, l) == <<i, l>> \in DOMAIN lv

\* Item.get_stock_at_location: the row's quantity, 0 without a row
LevelQty(lv, i, l) == IF HasLevel(lv, i, l) THEN lv[<<i, l>>] ELSE 0

\* update the StockLevel row of (i, l), or db.session.add a new one
SetLevel(lv, i, l, q) ==
    [p \in DOMAIN lv \cup {<<i, l>>} |-> IF p = <<i, l>> THEN q ELSE lv[p]]

\* a StockMovement row
Movement(type, i, q, from, to) ==
    [movement_type |-> type, item_id |-> i, quantity |-> q,
     from_location_id |-> from, to_location_id |-> to]

\* Item.total_stock
total_stock(lv, i) ==
    LET locs == {l \in LocationIds : HasLevel(lv, i, l)}
        RECURSIVE Sum(_)
        Sum(S) == IF S = {} THEN 0
                  ELSE LET l == CHOOSE x \in S : TRUE
                       IN lv[<<i, l>>] + Sum(S \ {l})
    IN Sum(locs)

Resp(op, result) == [op |-> op, result |-> result]

\* ------------------------------------------------------------------ stock handlers
\* the ledger can take n more rows (model bound on the append-only table)
Room(n) == BagCardinality(movements) + n <= MaxMovements

\* a handler that changes a level and forgets the ledger row
RecordNothing(ledger, m) == ledger

\* db.session.add(StockMovement(...))
Record(ledger, m) == ledger (+) SetToBag({m})

\* the add-stock body shared by receive_stock, quick_add_stock and
\* api.quick_receive: validate, update or create the level, record a receipt
Receive(op, i, l, q) ==
    /\ Room(1)
    /\ IF i = NoId \/ l = NoId \/ q <= 0
       THEN /\ response' = Resp(op, "error")
            /\ UNCHANGED <<levels, movements>>
       ELSE /\ levels' = SetLevel(levels, i, l, LevelQty(levels, i, l) + q)
            /\ movements' = Record(movements, Movement("receipt", i, q, NoId, l))
            /\ response' = Resp(op, "success")
    /\ UNCHANGED <<salesVars, prodVars>>

receive_stock ==
    \E r \in StockRequests :
        Receive("receive_stock", r.item_id, r.location_id, r.quantity)

quick_add_stock ==
    \E r \in StockRequests :
        Receive("quick_add_stock", r.item_id, r.location_id, r.quantity)

quick_receive ==
    \E r \in StockRequests :
        Receive("quick_receive", r.item_id, r.location_id, r.quantity)

\* a move that adds to the destination and leaves the source as it was
MoveWithoutTaking(op, i, from, to, q) ==
    /\ Room(1)
    /\ IF \/ i = NoId \/ from = NoId \/ to = NoId \/ q <= 0
          \/ from = to
          \/ ~HasLevel(levels, i, from)
          \/ LevelQty(levels, i, from) < q
       THEN /\ response' = Resp(op, "error")
            /\ UNCHANGED <<levels, movements>>
       ELSE /\ levels' = SetLevel(levels, i, to, LevelQty(levels, i, to) + q)
            /\ movements' = Record(movements, Movement("movement", i, q, from, to))
            /\ response' = Resp(op, "success")
    /\ UNCHANGED <<salesVars, prodVars>>

\* the move body shared by move_stock, quick_move_stock and api.quick_move
Move(op, i, from, to, q) ==
    /\ Room(1)
    /\ IF \/ i = NoId \/ from = NoId \/ to = NoId \/ q <= 0
          \/ from = to
          \/ ~HasLevel(levels, i, from)
          \/ LevelQty(levels, i, from) < q
       THEN /\ response' = Resp(op, "error")
            /\ UNCHANGED <<levels, movements>>
       ELSE /\ levels' = LET src == SetLevel(levels, i, from, levels[<<i, from>>] - q)
                         IN SetLevel(src, i, to, LevelQty(src, i, to) + q)
            /\ movements' = Record(movements, Movement("movement", i, q, from, to))
            /\ response' = Resp(op, "success")
    /\ UNCHANGED <<salesVars, prodVars>>

move_stock ==
    \E r \in MoveRequests :
        Move("move_stock", r.item_id, r.from_location_id, r.to_location_id, r.quantity)

quick_move_stock ==
    \E r \in MoveRequests :
        Move("quick_move_stock", r.item_id, r.from_location_id, r.to_location_id, r.quantity)

quick_move ==
    \E r \in MoveRequests :
        Move("quick_move", r.item_id, r.from_location_id, r.to_location_id, r.quantity)

\* a removal that does not compare the quantity with the level
remove_unchecked ==
    \E r \in StockRequests :
      LET i == r.item_id
          l == r.location_id
          q == r.quantity
      IN
        /\ Room(1)
        /\ IF \/ i = NoId \/ l = NoId \/ q <= 0
              \/ ~HasLevel(levels, i, l)
           THEN /\ response' = Resp("quick_remove_stock", "error")
                /\ UNCHANGED <<levels, movements>>
           ELSE /\ levels' = SetLevel(levels, i, l, levels[<<i, l>>] - q)
                /\ movements' = Record(movements, Movement("adjustment", i, 0 - q, l, NoId))
                /\ response' = Resp("quick_remove_stock", "success")
        /\ UNCHANGED <<salesVars, prodVars>>

quick_remove_stock ==
    \E r \in StockRequests :
      LET i == r.item_id
          l == r.location_id
          q == r.quantity
      IN
        /\ Room(1)
        /\ IF \/ i = NoId \/ l = NoId \/ q <= 0
              \/ ~HasLevel(levels, i, l)
              \/ LevelQty(levels, i, l) < q
           THEN /\ response' = Resp("quick_remove_stock", "error")
                /\ UNCHANGED <<levels, movements>>
           ELSE /\ levels' = SetLevel(levels, i, l, levels[<<i, l>>] - q)
                /\ movements' = Record(movements, Movement("adjustment", i, 0 - q, l, NoId))
                /\ response' = Resp("quick_remove_stock", "success")
        /\ UNCHANGED <<salesVars, prodVars>>

\* adjust_stock sets the level to the submitted new quantity (of either sign)
\* and records the difference; hasReason is whether a reason was entered
adjust_stock ==
    \E r \in StockRequests, hasReason \in BOOLEAN :
      LET i == r.item_id
          l == r.location_id
          new_quantity == r.quantity
      IN
        /\ Room(1)
        /\ IF i = NoId \/ l = NoId \/ ~hasReason
           THEN /\ response' = Resp("adjust_stock", "error")
                /\ UNCHANGED <<levels, movements>>
           ELSE LET old_quantity == LevelQty(levels, i, l)
                    adjustment == new_quantity - old_quantity
                IN /\ levels' = SetLevel(levels, i, l, new_quantity)
                   /\ movements' = Record(movements, Movement("adjustment", i, adjustment,
                                  IF adjustment < 0 THEN l ELSE NoId,
                                  IF adjustment > 0 THEN l ELSE NoId))
                   /\ response' = Resp("adjust_stock", "success")
        /\ UNCHANGED <<salesVars, prodVars>>

\* the rows of a set of (item, location) pairs that hold a positive quantity
Positive(lv, pairs) == {p \in pairs \cap DOMAIN lv : lv[p] > 0}

\* zero every given row: sl.quantity = 0
ZeroLevels(lv, pairs) == [p \in DOMAIN lv |-> IF p \in pairs THEN 0 ELSE lv[p]]

\* one 'adjustment' ledger row of -quantity from the row's location per row
RECURSIVE ZeroMovements(_, _, _)
ZeroMovements(ledger, lv, pairs) ==
    IF pairs = {} THEN ledger
    ELSE LET p == CHOOSE x \in pairs : TRUE
         IN ZeroMovements(Record(ledger, Movement("adjustment", p[1], 0 - lv[p], p[2], NoId)),
                          lv, pairs \ {p})

item_delete ==
    \E i \in ItemIds, is_admin \in BOOLEAN :
        LET had_stock == total_stock(levels, i) > 0
            rows == IF had_stock
                    THEN Positive(levels, {<<i, l>> : l \in LocationIds})
                    ELSE {}
        IN IF ~is_admin
           THEN /\ response' = Resp("item_delete", "error")
                /\ UNCHANGED <<stockVars, salesVars, prodVars>>
           ELSE /\ Room(Cardinality(rows))
                /\ levels' = ZeroLevels(levels, rows)
                /\ movements' = ZeroMovements(movements, levels, rows)
                /\ response' = Resp("item_delete", "success")
                /\ UNCHANGED <<salesVars, prodVars>>

location_delete ==
    \E l \in LocationIds, is_admin \in BOOLEAN :
        LET rows == Positive(levels, {<<i, l>> : i \in ItemIds})
        IN IF ~is_admin
           THEN /\ response' = Resp("location_delete", "error")
                /\ UNCHANGED <<stockVars, salesVars, prodVars>>
           ELSE /\ Room(Cardinality(rows))
                /\ levels' = ZeroLevels(levels, rows)
                /\ movements' = ZeroMovements(movements, levels, rows)
                /\ response' = Resp("location_delete", "success")
                /\ UNCHANGED <<salesVars, prodVars>>

\* ------------------------------------------------------------------ requests in flight
\* Each request runs in its own ORM session: it validates its form, reads the
\* StockLevel row, computes the new quantity from what it read and commits.
\* Nothing is locked between the read and the commit, so the steps of two
\* requests interleave; each commit is one database transaction.

\* receive_stock up to its query: the session holds the row as read
receive_stock_read ==
    \E r \in (1 .. MaxRequests) \ DOMAIN sessions, req \in StockRequests :
        IF req.item_id = NoId \/ req.location_id = NoId \/ req.quantity <= 0
        THEN /\ response' = Resp("receive_stock", "error")
             /\ UNCHANGED <<stockVars, salesVars, prodVars>>
        ELSE /\ sessions' = (r :> [op |-> "receive_stock", request |-> req,
                                   found |-> HasLevel(levels, req.item_id, req.location_id),
                                   quantity |-> LevelQty(levels, req.item_id, req.location_id),
                                   state |-> "open"]) @@ sessions
             /\ UNCHANGED <<stockVars, orders, deliveries, quotes, items, shiftLogs,
                            dataVars, prodVars, response>>

\* quick_remove_stock up to its stock check, made on the row as read
quick_remove_stock_read ==
    \E r \in (1 .. MaxRequests) \ DOMAIN sessions, req \in StockRequests :
        IF \/ req.item_id = NoId \/ req.location_id = NoId \/ req.quantity <= 0
           \/ ~HasLevel(levels, req.item_id, req.location_id)
           \/ LevelQty(levels, req.item_id, req.location_id) < req.quantity
        THEN /\ response' = Resp("quick_remove_stock", "error")
             /\ UNCHANGED <<stockVars, salesVars, prodVars>>
        ELSE /\ sessions' = (r :> [op |-> "quick_remove_stock", request |-> req,
                                   found |-> TRUE,
                                   quantity |-> levels[<<req.item_id, req.location_id>>],
                                   state |-> "open"]) @@ sessions
             /\ UNCHANGED <<stockVars, orders, deliveries, quotes, items, shiftLogs,
                            dataVars, prodVars, response>>

\* the rest of either handler: the flush writes the quantity computed from
\* the row as read (UPDATE ... SET quantity = <value>) or inserts the new row,
\* which UNIQUE(item_id, location_id) refuses when the row exists by now; the
\* ledger row is inserted and the transaction commits
session_commit ==
    \E r \in DOMAIN sessions :
        LET s == sessions[r]
            i == s.request.item_id
            l == s.request.location_id
            q == IF s.op = "receive_stock" THEN s.request.quantity
                 ELSE 0 - s.request.quantity
            m == IF s.op = "receive_stock" THEN Movement("receipt", i, q, NoId, l)
                 ELSE Movement("adjustment", i, q, l, NoId)
        IN /\ s.state = "open"
           /\ IF ~s.found /\ HasLevel(levels, i, l)
              THEN /\ sessions' = [sessions EXCEPT ![r].state = "failed"]
                   /\ response' = Resp(s.op, "failed")
                   /\ UNCHANGED <<levels, movements>>
              ELSE /\ levels' = SetLevel(levels, i, l, s.quantity + q)
                   /\ movements' = Record(movements, m)
                   /\ sessions' = [sessions EXCEPT ![r].state = "committed"]
                   /\ response' = Resp(s.op, "success")
           /\ UNCHANGED <<orders, deliveries, quotes, items, shiftLogs, dataVars, prodVars>>

\* ------------------------------------------------------------------ production booking
\* production.order_complete: close an in-progress production order and book
\* its good quantity into stock when a location is given
order_complete ==
    \E po \in DOMAIN prodOrders, location_id \in LocationIds \cup {NoId},
       hasFinal \in BOOLEAN, final_good_quantity \in QtyInputs :
        LET order == prodOrders[po]
            quantity_good == IF hasFinal THEN final_good_quantity ELSE order.quantity_good
            book == location_id # NoId /\ quantity_good > 0
        IN IF order.status # "in_progress"
           THEN /\ response' = Resp("order_complete", "error")
                /\ UNCHANGED <<stockVars, salesVars, prodVars>>
           ELSE /\ Room(IF book THEN 1 ELSE 0)
                /\ prodOrders' = [prodOrders EXCEPT ![po] =
                       [order EXCEPT !.quantity_good = quantity_good,
                                     !.status = "completed"]]
                /\ IF book
                   THEN /\ levels' = SetLevel(levels, order.item_id, location_id,
                               LevelQty(levels, order.item_id, location_id) + quantity_good)
                        /\ movements' = Record(movements,
                               Movement("production", order.item_id, quantity_good,
                                        NoId, location_id))
                   ELSE UNCHANGED <<levels, movements>>
                /\ response' = Resp("order_complete", "success")
                /\ UNCHANGED <<salesVars, jobs, sortings>>

\* the form's destination field of complete_job: one of the three queues, a
\* location, another string, or absent
Destinations ==
    {[kind |-> k, location_id |-> NoId] :
        k \in {"awaiting_sorting", "awaiting_degating", "awaiting_assembly",
               "other", "missing"}}
    \cup {[kind |-> "location", location_id |-> l] : l \in LocationIds}

\* the id the database gives the next row of a table
NextId(table) == IF DOMAIN table = {} THEN 1
                 ELSE (CHOOSE n \in DOMAIN table : \A m \in DOMAIN table : m <= n) + 1

\* insert a row under the next id
Insert(table, row) ==
    [k \in DOMAIN table \cup {NextId(table)} |->
        IF k \in DOMAIN table THEN table[k] ELSE row]

\* delete the row with id k
Delete(table, k) == [j \in DOMAIN table \ {k} |-> table[j]]

\* scheduling.complete_job; a quantity_produced of 0 behaves as a missing one
\* (both are falsy), a negative one is taken as entered
complete_job ==
    \E j \in DOMAIN jobs, destination \in Destinations, quantity_produced \in QtyInputs :
        LET job == jobs[j]
            po == job.production_order_id
            order == prodOrders[po]
            produced == order.quantity_produced + quantity_produced
            toStock == destination.kind = "location" /\ quantity_produced # 0
            toQueue == destination.kind \in
                         {"awaiting_sorting", "awaiting_degating", "awaiting_assembly"}
        IN IF job.status \notin {"in_progress", "scheduled"}
           THEN /\ response' = Resp("complete_job", "error")
                /\ UNCHANGED <<stockVars, salesVars, prodVars>>
           ELSE IF destination.kind = "missing"
           THEN \* destination.startswith on None raises: the request fails
                /\ response' = Resp("complete_job", "failed")
                /\ UNCHANGED <<stockVars, salesVars, prodVars>>
           ELSE /\ Room(IF toStock THEN 1 ELSE 0)
                /\ jobs' = [jobs EXCEPT ![j].status = "completed"]
                /\ prodOrders' = [prodOrders EXCEPT ![po] =
                       [order EXCEPT
                          !.quantity_produced = produced,
                          !.status = IF produced >= order.quantity_required
                                     THEN "completed" ELSE @,
                          !.quantity_good = IF toStock THEN @ + quantity_produced ELSE @]]
                /\ sortings' = IF toQueue
                               THEN Append(sortings,
                                      [production_order_id |-> po,
                                       item_id |-> order.item_id,
                                       status |-> "pending"])
                               ELSE sortings
                /\ IF toStock
                   THEN /\ levels' = SetLevel(levels, order.item_id, destination.location_id,
                               LevelQty(levels, order.item_id, destination.location_id)
                                 + quantity_produced)
                        /\ movements' = Record(movements,
                               Movement("production", order.item_id, quantity_produced,
                                        NoId, destination.location_id))
                   ELSE UNCHANGED <<levels, movements>>
                /\ response' = Resp("complete_job", "success")
                /\ UNCHANGED salesVars

\* scheduling.complete_sorting: book the counted quantity into stock
complete_sorting ==
    \E sid \in DOMAIN sortings, actual_quantity \in QtyInputs,
       location_id \in LocationIds \cup {NoId} :
        LET sorting == sortings[sid]
            po == sorting.production_order_id
        IN IF actual_quantity = 0 \/ location_id = NoId
           THEN /\ response' = Resp("complete_sorting", "error")
                /\ UNCHANGED <<stockVars, salesVars, prodVars>>
           ELSE /\ Room(1)
                /\ sortings' = [sortings EXCEPT ![sid].status = "completed"]
                /\ levels' = SetLevel(levels, sorting.item_id, location_id,
                       LevelQty(levels, sorting.item_id, location_id) + actual_quantity)
                /\ movements' = Record(movements,
                       Movement("production", sorting.item_id, actual_quantity,
                                NoId, location_id))
                /\ prodOrders' = [prodOrders EXCEPT ![po].quantity_good = @ + actual_quantity]
                /\ response' = Resp("complete_sorting", "success")
                /\ UNCHANGED <<salesVars, jobs>>

\* ------------------------------------------------------------------ production scheduling
\* the scheduled_date field of the scheduling forms: absent, not a date, or
\* one of two days
DateInputs == {"", "tomorrow", "2024-01-01", "2024-01-02"}

\* datetime.strptime(s, '%Y-%m-%d').date(); NoId stands for the ValueError
strptime(s) == CASE s = "2024-01-01" -> 1
                 [] s = "2024-01-02" -> 2
                 [] OTHER -> NoId

\* production.order_start
order_start ==
    \E po \in DOMAIN prodOrders, machine_id \in MachineIds \cup {NoId} :
        LET order == prodOrders[po]
        IN IF order.status # "planned"
           THEN /\ response' = Resp("order_start", "error")
                /\ UNCHANGED <<stockVars, salesVars, prodVars>>
           ELSE IF machine_id = NoId
           THEN /\ response' = Resp("order_start", "error")
                /\ UNCHANGED <<stockVars, salesVars, prodVars>>
           ELSE /\ prodOrders' = [prodOrders EXCEPT ![po] =
                       [order EXCEPT !.status = "in_progress",
                                     !.machine_id = machine_id]]
                /\ response' = Resp("order_start", "success")
                /\ UNCHANGED <<stockVars, salesVars, jobs, sortings>>

\* api.start_production
start_production ==
    \E order_id \in DOMAIN prodOrders \cup {NoId, MaxProdOrders + 1},
       machine_id \in MachineIds \cup {NoId} :
        IF order_id = NoId \/ machine_id = NoId
        THEN /\ response' = Resp("start_production", 400)
             /\ UNCHANGED <<stockVars, salesVars, prodVars>>
        ELSE IF order_id \notin DOMAIN prodOrders
        THEN /\ response' = Resp("start_production", 404)
             /\ UNCHANGED <<stockVars, salesVars, prodVars>>
        ELSE IF prodOrders[order_id].status # "planned"
        THEN /\ response' = Resp("start_production", 400)
             /\ UNCHANGED <<stockVars, salesVars, prodVars>>
        ELSE /\ prodOrders' = [prodOrders EXCEPT ![order_id] =
                    [@ EXCEPT !.status = "in_progress",
                              !.machine_id = machine_id]]
             /\ response' = Resp("start_production", 200)
             /\ UNCHANGED <<stockVars, salesVars, jobs, sortings>>

\* scheduling.start_job
start_job ==
    \E j \in DOMAIN jobs :
        LET job == jobs[j]
        IN IF job.status # "scheduled"
           THEN /\ response' = Resp("start_job", "error")
                /\ UNCHANGED <<stockVars, salesVars, prodVars>>
           ELSE /\ jobs' = [jobs EXCEPT ![j].status = "in_progress"]
                /\ prodOrders' = [prodOrders EXCEPT
                       ![job.production_order_id].status = "in_progress"]
                /\ response' = Resp("start_job", "success")
                /\ UNCHANGED <<stockVars, salesVars, sortings>>

\* scheduling.schedule_job
schedule_job ==
    \E production_order_id \in DOMAIN prodOrders \cup {NoId},
       machine_id \in MachineIds \cup {NoId}, scheduled_date_str \in DateInputs :
        LET scheduled_date == strptime(scheduled_date_str)
            taken == {jobs[j].sequence_order : j \in
                        {k \in DOMAIN jobs : /\ jobs[k].machine_id = machine_id
                                             /\ jobs[k].scheduled_date = scheduled_date}}
            max_seq == IF taken = {} THEN 0
                       ELSE CHOOSE n \in taken : \A m \in taken : m <= n
        IN IF production_order_id = NoId \/ machine_id = NoId \/ scheduled_date_str = ""
           THEN /\ response' = Resp("schedule_job", "error")
                /\ UNCHANGED <<stockVars, salesVars, prodVars>>
           ELSE IF scheduled_date = NoId
           THEN /\ response' = Resp("schedule_job", "error")
                /\ UNCHANGED <<stockVars, salesVars, prodVars>>
           ELSE /\ Cardinality(DOMAIN jobs) < MaxJobs
                /\ max_seq < MaxSequence
                /\ jobs' = Insert(jobs,
                       [production_order_id |-> production_order_id,
                        machine_id |-> machine_id,
                        scheduled_date |-> scheduled_date,
                        sequence_order |-> max_seq + 1,
                        status |-> "scheduled"])
                /\ response' = Resp("schedule_job", "success")
                /\ UNCHANGED <<stockVars, salesVars, prodOrders, sortings>>

\* scheduling.unschedule_job
unschedule_job ==
    \E j \in DOMAIN jobs :
        IF jobs[j].status \notin {"scheduled"}
        THEN /\ response' = Resp("unschedule_job", "error")
             /\ UNCHANGED <<stockVars, salesVars, prodVars>>
        ELSE /\ jobs' = Delete(jobs, j)
             /\ response' = Resp("unschedule_job", "success")
             /\ UNCHANGED <<stockVars, salesVars, prodOrders, sortings>>

\* scheduling.move_job: every field that is given (truthy) is assigned; a
\* string that is not a date is passed over
move_job ==
    \E j \in DOMAIN jobs, new_machine_id \in MachineIds \cup {NoId},
       new_date_str \in DateInputs, new_sequence \in 0 .. MaxSequence :
        /\ jobs' = [jobs EXCEPT ![j] =
               [@ EXCEPT
                  !.machine_id = IF new_machine_id # NoId THEN new_machine_id ELSE @,
                  !.scheduled_date = IF strptime(new_date_str) # NoId
                                     THEN strptime(new_date_str) ELSE @,
                  !.sequence_order = IF new_sequence # 0 THEN new_sequence ELSE @]]
        /\ response' = Resp("move_job", "success")
        /\ UNCHANGED <<stockVars, salesVars, prodOrders, sortings>>

\* scheduling.api_move_job
api_move_job ==
    \E job_id \in DOMAIN jobs \cup {NoId}, new_machine_id \in MachineIds \cup {NoId},
       new_date \in DateInputs, new_sequence \in 0 .. MaxSequence :
        IF job_id \notin DOMAIN jobs
        THEN /\ response' = Resp("api_move_job", 404)
             /\ UNCHANGED <<stockVars, salesVars, prodVars>>
        ELSE IF jobs[job_id].status # "scheduled"
        THEN /\ response' = Resp("api_move_job", 400)
             /\ UNCHANGED <<stockVars, salesVars, prodVars>>
        ELSE /\ jobs' = [jobs EXCEPT ![job_id] =
                    [@ EXCEPT
                       !.machine_id = IF new_machine_id # NoId THEN new_machine_id ELSE @,
                       !.scheduled_date = IF strptime(new_date) # NoId
                                          THEN strptime(new_date) ELSE @,
                       !.sequence_order = IF new_sequence # 0 THEN new_sequence ELSE @]]
             /\ response' = Resp("api_move_job", 200)
             /\ UNCHANGED <<stockVars, salesVars, prodOrders, sortings>>

\* ------------------------------------------------------------------ dispatch
\* Delivery.generate_delivery_number: today's count of deliveries plus one
\* (all requests of a behaviour fall on one day; the number is the NNNN part)
generate_delivery_number(dels) == Cardinality(dels) + 1

Min(a, b) == IF a <= b THEN a ELSE b

\* the orders in which a query without ORDER BY can return the locations
LocationOrders ==
    {sq \in [1 .. Cardinality(LocationIds) -> LocationIds] :
        \A a, b \in DOMAIN sq : a # b => sq[a] # sq[b]}

\* dispatch's inner loop for one line: take qty of item i from the levels
\* that hold a positive quantity, in the order locs, one 'shipment' row each;
\* st is [levels, movements]
RECURSIVE Deduct(_, _, _, _)
Deduct(st, i, qty, locs) ==
    IF locs = <<>> \/ qty <= 0 THEN st
    ELSE LET l == Head(locs)
         IN IF HasLevel(st.levels, i, l) /\ st.levels[<<i, l>>] > 0
            THEN LET deduct == Min(st.levels[<<i, l>>], qty)
                 IN Deduct([levels |-> SetLevel(st.levels, i, l, st.levels[<<i, l>>] - deduct),
                            movements |-> Record(st.movements,
                                Movement("shipment", i, 0 - deduct, l, NoId))],
                           i, qty - deduct, Tail(locs))
            ELSE Deduct(st, i, qty, Tail(locs))

\* the form's quantity taken as entered when positive, without the cap
ToShipUncapped(line, qty) == IF qty > 0 THEN qty ELSE 0

\* the quantity dispatch ships of a line: the form's quantity capped at the
\* remaining quantity, counted only when positive
ToShip(line, qty) ==
    LET capped == Min(qty, line.quantity_ordered - line.quantity_shipped)
    IN IF capped > 0 THEN capped ELSE 0

\* a dispatch that ships no line
ShipNothing(st, qtys, locs, k) == st

\* dispatch's second loop over the lines from index k on: raise
\* quantity_shipped and deduct stock of stock items; st is
\* [lines, levels, movements]
RECURSIVE ShipLines(_, _, _, _)
ShipLines(st, qtys, locs, k) ==
    IF k > Len(st.lines) THEN st
    ELSE LET line == st.lines[k]
             qty_to_ship == ToShip(line, qtys[k])
             stock == IF qty_to_ship > 0 /\ ~line.is_custom_item /\ line.item_id # NoId
                      THEN Deduct([levels |-> st.levels, movements |-> st.movements],
                                  line.item_id, qty_to_ship, locs)
                      ELSE [levels |-> st.levels, movements |-> st.movements]
         IN ShipLines([lines |-> [st.lines EXCEPT ![k].quantity_shipped = @ + qty_to_ship],
                       levels |-> stock.levels,
                       movements |-> stock.movements],
                      qtys, locs, k + 1)

dispatch ==
    \E o \in DOMAIN orders :
      \E qtys \in [1 .. Len(orders[o].lines) -> QtyInputs], locs \in LocationOrders :
        LET order == orders[o]
            total_shipping == LET RECURSIVE Sum(_)
                                  Sum(k) == IF k > Len(order.lines) THEN 0
                                            ELSE ToShip(order.lines[k], qtys[k]) + Sum(k + 1)
                              IN Sum(1)
            delivery_number == generate_delivery_number(deliveries)
            shipped == ShipLines([lines |-> order.lines, levels |-> levels,
                                  movements |-> movements], qtys, locs, 1)
            all_complete == \A k \in 1 .. Len(shipped.lines) :
                               shipped.lines[k].quantity_shipped
                                 >= shipped.lines[k].quantity_ordered
        IN IF order.status \notin {"ready_to_ship", "partially_shipped"}
              \/ total_shipping <= 0
           THEN /\ response' = Resp("dispatch", "error")
                /\ UNCHANGED <<stockVars, salesVars, prodVars>>
           ELSE IF \E d \in deliveries : d.delivery_number = delivery_number
           THEN \* UNIQUE(delivery_number) fails at the flush: the request fails
                /\ response' = Resp("dispatch", "failed")
                /\ UNCHANGED <<stockVars, salesVars, prodVars>>
           ELSE /\ BagCardinality(shipped.movements) <= MaxMovements
                /\ Cardinality(deliveries) < MaxDeliveries
                /\ deliveries' = deliveries \cup
                       {[delivery_number |-> delivery_number, order_id |-> o]}
                /\ UNCHANGED officeVars
                /\ orders' = [orders EXCEPT ![o] =
                       [order EXCEPT !.lines = shipped.lines,
                                     !.status = IF all_complete THEN "dispatched"
                                                ELSE "partially_shipped"]]
                /\ levels' = shipped.levels
                /\ movements' = shipped.movements
                /\ response' = Resp("dispatch", "success")
                /\ UNCHANGED prodVars

\* ------------------------------------------------------------------ sales orders
\* update_status's table of allowed next statuses
valid_transitions ==
    [s \in {"new", "in_production", "ready_to_ship", "partially_shipped",
            "dispatched", "delivered", "cancelled", "archived"} |->
        CASE s = "new" -> {"in_production", "ready_to_ship", "cancelled"}
          [] s = "in_production" -> {"ready_to_ship", "new", "cancelled"}
          [] s = "ready_to_ship" -> {"dispatched", "partially_shipped", "in_production"}
          [] s = "partially_shipped" -> {"dispatched", "ready_to_ship"}
          [] s = "dispatched" -> {"delivered"}
          [] s = "delivered" -> {"archived"}
          [] s = "cancelled" -> {"new", "archived"}
          [] s = "archived" -> {}]

\* a lookup that lets every known status through
AnyTarget(status) == DOMAIN valid_transitions

\* valid_transitions.get(status, [])
ValidTargets(status) ==
    IF status \in DOMAIN valid_transitions THEN valid_transitions[status] ELSE {}

\* the status field a form can submit: a status, nothing, or anything else
StatusInputs == DOMAIN valid_transitions \cup {"", "shipped"}

\* SalesOrder.generate_order_number: today's count of orders plus one
\* (all requests of a behaviour fall on one day; the number is the NNNN part)
generate_order_number(ords) == Cardinality(DOMAIN ords) + 1

\* UNIQUE(order_number): some order already has number n
NumberTaken(ords, n) == \E o \in DOMAIN ords : ords[o].order_number = n

\* SalesOrder(order_number=..., status='new') without lines
NewOrder(n) == [status |-> "new", order_number |-> n, lines |-> <<>>]

\* order_create: the insert fails on the unique order number when the
\* generated number is taken
order_create ==
    \E has_customer \in BOOLEAN :
        LET order_number == generate_order_number(orders)
        IN /\ IF ~has_customer
              THEN /\ response' = Resp("order_create", "error")
                   /\ UNCHANGED orders
              ELSE IF NumberTaken(orders, order_number)
              THEN /\ response' = Resp("order_create", "failed")
                   /\ UNCHANGED orders
              ELSE /\ NextId(orders) <= MaxOrderId
                   /\ orders' = Insert(orders, NewOrder(order_number))
                   /\ response' = Resp("order_create", "success")
           /\ UNCHANGED <<stockVars, deliveries, officeVars, prodVars>>

\* costing.quote_convert_to_order: an accepted quote becomes a new order
quote_convert_to_order ==
    \E q \in DOMAIN quotes :
        LET order_number == generate_order_number(orders)
        IN /\ IF quotes[q].status # "accepted"
              THEN /\ response' = Resp("quote_convert_to_order", "error")
                   /\ UNCHANGED <<orders, officeVars>>
              ELSE IF NumberTaken(orders, order_number)
              THEN \* the flush fails on the unique order number
                   /\ response' = Resp("quote_convert_to_order", "failed")
                   /\ UNCHANGED <<orders, officeVars>>
              ELSE /\ NextId(orders) <= MaxOrderId
                   /\ orders' = Insert(orders, NewOrder(order_number))
                   /\ UNCHANGED officeVars
                   /\ response' = Resp("quote_convert_to_order", "success")
           /\ UNCHANGED <<stockVars, deliveries, prodVars>>

\* the stock items customers order
OrderedItems == {1}

\* the add-line form: a stock item or a custom item (custom_ok: description
\* and unit price are filled in)
add_line ==
    \E o \in DOMAIN orders, is_custom \in BOOLEAN, quantity \in QtyInputs,
       item_id \in OrderedItems \cup {NoId}, custom_ok \in BOOLEAN :
        LET order == orders[o]
        IN /\ IF \/ order.status \notin {"new", "in_production"}
                 \/ quantity <= 0
                 \/ (is_custom /\ ~custom_ok)
                 \/ (~is_custom /\ item_id = NoId)
              THEN /\ response' = Resp("add_line", "error")
                   /\ UNCHANGED orders
              ELSE /\ Len(order.lines) < MaxLines
                   /\ orders' = [orders EXCEPT ![o].lines = Append(@,
                          [item_id |-> IF is_custom THEN NoId ELSE item_id,
                           is_custom_item |-> is_custom,
                           quantity_ordered |-> quantity,
                           quantity_shipped |-> 0])]
                   /\ response' = Resp("add_line", "success")
           /\ UNCHANGED <<stockVars, deliveries, officeVars, prodVars>>

\* a sequence without its k-th element
RemoveAt(sq, k) == [j \in 1 .. Len(sq) - 1 |-> IF j < k THEN sq[j] ELSE sq[j + 1]]

\* remove_line: the line (of order lo, position k) must belong to order o
remove_line ==
    \E o \in DOMAIN orders, lo \in DOMAIN orders :
      \E k \in 1 .. Len(orders[lo].lines) :
        /\ IF lo # o \/ orders[o].status \notin {"new", "in_production"}
           THEN /\ response' = Resp("remove_line", "error")
                /\ UNCHANGED orders
           ELSE /\ orders' = [orders EXCEPT ![o].lines = RemoveAt(@, k)]
                /\ response' = Resp("remove_line", "success")
        /\ UNCHANGED <<stockVars, deliveries, officeVars, prodVars>>

\* update_status for one order and one submitted status
UpdateStatus(o, new_status) ==
    /\ IF new_status \notin ValidTargets(orders[o].status)
       THEN /\ response' = Resp("update_status", "error")
            /\ UNCHANGED orders
       ELSE /\ orders' = [orders EXCEPT ![o].status = new_status]
            /\ response' = Resp("update_status", "success")
    /\ UNCHANGED <<stockVars, deliveries, officeVars, prodVars>>

update_status ==
    \E o \in DOMAIN orders, new_status \in StatusInputs : UpdateStatus(o, new_status)

\* process_order's loop over the lines from index k on: a stock line whose
\* remaining quantity exceeds the item's total stock is short; a planned
\* production order of the item for this sales order is raised to the
\* shortfall, or a new one is created; st is [pos, short]
RECURSIVE ProcessLines(_, _, _, _)
ProcessLines(st, o, lines, k) ==
    IF k > Len(lines) THEN st
    ELSE LET line == lines[k]
             available == total_stock(levels, line.item_id)
             required == line.quantity_ordered - line.quantity_shipped
             shortfall == IF required - available > 0 THEN required - available ELSE 0
             planned == {po \in DOMAIN st.pos :
                            /\ st.pos[po].item_id = line.item_id
                            /\ st.pos[po].sales_order_id = o
                            /\ st.pos[po].status = "planned"}
         IN IF line.is_custom_item \/ line.item_id = NoId \/ shortfall = 0
            THEN ProcessLines(st, o, lines, k + 1)
            ELSE IF planned # {}
            THEN LET po == CHOOSE x \in planned : \A y \in planned : x <= y
                 IN ProcessLines(
                      [pos |-> IF st.pos[po].quantity_required < shortfall
                               THEN [st.pos EXCEPT ![po].quantity_required = shortfall]
                               ELSE st.pos,
                       short |-> TRUE], o, lines, k + 1)
            ELSE ProcessLines(
                      [pos |-> Insert(st.pos,
                                 [item_id |-> line.item_id, status |-> "planned",
                                  quantity_required |-> shortfall,
                                  quantity_produced |-> 0, quantity_good |-> 0,
                                  sales_order_id |-> o]),
                       short |-> TRUE], o, lines, k + 1)

process_order ==
    \E o \in DOMAIN orders :
        LET order == orders[o]
            done == ProcessLines([pos |-> prodOrders, short |-> FALSE], o, order.lines, 1)
        IN /\ IF order.status \notin {"new", "in_production"}
              THEN /\ response' = Resp("process_order", "error")
                   /\ UNCHANGED <<orders, prodOrders>>
              ELSE /\ Cardinality(DOMAIN done.pos) <= MaxProdOrders
                   /\ prodOrders' = done.pos
                   /\ orders' = [orders EXCEPT ![o].status =
                          IF done.short THEN "in_production" ELSE "ready_to_ship"]
                   /\ response' = Resp("process_order", "success")
           /\ UNCHANGED <<stockVars, deliveries, officeVars, jobs, sortings>>

\* an archive handler that does not look at the order's status
archive_any ==
    \E o \in DOMAIN orders :
        /\ orders' = [orders EXCEPT ![o].status = "archived"]
        /\ response' = Resp("archive_order", "success")
        /\ UNCHANGED <<stockVars, deliveries, officeVars, prodVars>>

archive_order ==
    \E o \in DOMAIN orders :
        /\ IF orders[o].status \notin {"delivered", "cancelled"}
           THEN /\ response' = Resp("archive_order", "error")
                /\ UNCHANGED orders
           ELSE /\ orders' = [orders EXCEPT ![o].status = "archived"]
                /\ response' = Resp("archive_order", "success")
        /\ UNCHANGED <<stockVars, deliveries, officeVars, prodVars>>

archive_all_completed ==
    \E is_admin \in BOOLEAN :
        /\ IF ~is_admin
           THEN /\ response' = Resp("archive_all_completed", "error")
                /\ UNCHANGED orders
           ELSE /\ orders' = [o \in DOMAIN orders |->
                      IF orders[o].status \in {"delivered", "cancelled"}
                      THEN [orders[o] EXCEPT !.status = "archived"]
                      ELSE orders[o]]
                /\ response' = Resp("archive_all_completed", "success")
        /\ UNCHANGED <<stockVars, deliveries, officeVars, prodVars>>

\* order_delete removes the order, its lines and its deliveries; the
\* production orders of the order lose their sales_order_id
order_delete ==
    \E o \in DOMAIN orders, is_admin \in BOOLEAN :
        /\ IF ~is_admin
           THEN /\ response' = Resp("order_delete", "error")
                /\ UNCHANGED <<orders, deliveries, prodOrders>>
           ELSE /\ orders' = Delete(orders, o)
                /\ deliveries' = {d \in deliveries : d.order_id # o}
                /\ prodOrders' = [po \in DOMAIN prodOrders |->
                      IF prodOrders[po].sales_order_id = o
                      THEN [prodOrders[po] EXCEPT !.sales_order_id = NoId]
                      ELSE prodOrders[po]]
                /\ response' = Resp("order_delete", "success")
        /\ UNCHANGED <<stockVars, officeVars, jobs, sortings>>

\* ------------------------------------------------------------------ CSV import and export: the nine data types
\* Cells and attribute values are strings.  A number is held as the text
\* Python's str() gives it ("1" for an int, "1.0" for a float); None, an
\* attribute that the instance does not have, and a raised exception are the
\* three values below.  Columns that the code treats alike (the same
\* conversion, the same "or existing" pattern, mapped or not in the same way)
\* are represented by one of them.
None == "<None>"
Unset == "<unset>"
Err == "<error>"

DataTypes ==
    {"customers", "materials", "suppliers", "masterbatches", "moulds",
     "machines", "locations", "items", "categories"}

\* The mapped attributes of each model, with the values of a record entered
\* through the application's form for that type with key "A".
Columns ==
    [customers |-> [customer_code |-> "CUST001", name |-> "A", contact_name |-> "",
                    country |-> "United Kingdom"],
     materials |-> [code |-> "A", name |-> "n", material_type |-> "V", grade |-> "",
                    color |-> "Natural", cost_per_kg |-> "1.0", mfi |-> None,
                    barrel_temp_min |-> None, drying_required |-> "False"],
     suppliers |-> [name |-> "A", code |-> None, contact_name |-> "", country |-> "UK",
                    lead_time_days |-> None, minimum_order_kg |-> None],
     masterbatches |-> [code |-> "A", name |-> "n", color |-> "", cost_per_kg |-> "1.0",
                        min_stock_kg |-> None, notes |-> ""],
     moulds |-> [mould_number |-> "A", name |-> "n", num_cavities |-> "1",
                 status |-> "available", notes |-> ""],
     machines |-> [machine_code |-> "A", name |-> "n", manufacturer |-> "Borche",
                   tonnage |-> None, status |-> "idle", notes |-> ""],
     locations |-> [code |-> "A", name |-> "n", zone |-> "", location_type |-> "rack"],
     items |-> [sku |-> "A", name |-> "n", description |-> "", item_type |-> "finished_goods",
                customer_id |-> None, part_weight_grams |-> None, cavities |-> "1",
                default_mould_id |-> None, min_stock_level |-> "0.0", barcode |-> "A"],
     categories |-> [name |-> "A", description |-> "", category_type |-> ""]]

Mapped(t) == DOMAIN Columns[t]

\* the columns declared unique=True
UniqueColumns ==
    [customers |-> {"customer_code"}, materials |-> {"code"}, suppliers |-> {"code"},
     masterbatches |-> {"code"}, moulds |-> {"mould_number"},
     machines |-> {"machine_code", "name"}, locations |-> {"code"},
     items |-> {"sku", "barcode"}, categories |-> {"name"}]

\* One assignment of an import function: attribute a is given the cell under
\* header h after conversion conv.  mode "set": assigned in both branches;
\* "keep": "value or existing.a" when updating, "value or dflt" when creating;
\* "new": passed to the constructor only.
Op(h, a, conv, mode, dflt) ==
    [h |-> h, a |-> a, conv |-> conv, mode |-> mode, dflt |-> dflt]

\* a query of an import function: Model.query.filter_by(attr=cell).first()
Query(h, model, attr, conv, optional) ==
    [h |-> h, model |-> model, attr |-> attr, conv |-> conv, optional |-> optional]

import_customer ==
    [required |-> <<"name">>, precheck |-> "",
     lookups |-> <<>>,
     keys |-> <<Query("code", "customers", "code", "upper", TRUE),
                Query("name", "customers", "name", "strip", FALSE)>>,
     ops |-> <<Op("name", "name", "strip", "set", None),
               Op("code", "code", "upper", "keep", None),
               Op("contact_name", "contact_name", "strip", "keep", None),
               Op("address", "address", "strip", "keep", None),
               Op("country", "country", "strip", "keep", "UK")>>]

import_supplier ==
    [required |-> <<"name">>, precheck |-> "",
     lookups |-> <<>>,
     keys |-> <<Query("name", "suppliers", "name", "strip", FALSE)>>,
     ops |-> <<Op("code", "code", "upper", "keep", None),
               Op("name", "name", "strip", "new", None),
               Op("contact_name", "contact_name", "strip", "keep", None),
               Op("country", "country", "strip", "keep", "UK"),
               Op("lead_time_days", "lead_time_days", "int", "keep", None),
               Op("minimum_order_kg", "minimum_order_kg", "float", "keep", None)>>]

import_material ==
    [required |-> <<"code", "name", "material_type", "cost_per_kg">>,
     precheck |-> "cost_per_kg",
     lookups |-> <<>>,
     keys |-> <<Query("code", "materials", "code", "upper", FALSE)>>,
     ops |-> <<Op("code", "code", "upper", "new", None),
               Op("name", "name", "strip", "set", None),
               Op("material_type", "material_type", "upper", "set", None),
               Op("grade", "grade", "strip", "keep", None),
               Op("color", "color", "strip", "keep", "Natural"),
               Op("cost_per_kg", "cost_per_kg", "floatreq", "set", None),
               Op("mfi", "mfi", "float", "keep", None),
               Op("barrel_temp_min", "barrel_temp_min", "int", "keep", None),
               Op("drying_required", "drying_required", "true", "set", None)>>]

import_masterbatch ==
    [required |-> <<"code", "name", "masterbatch_type", "cost_per_kg">>,
     precheck |-> "cost_per_kg",
     lookups |-> <<>>,
     keys |-> <<Query("code", "masterbatches", "code", "upper", FALSE)>>,
     ops |-> <<Op("code", "code", "upper", "new", None),
               Op("name", "name", "strip", "set", None),
               Op("masterbatch_type", "masterbatch_type", "strip", "set", None),
               Op("color", "color", "strip", "keep", None),
               Op("color_hex", "color_hex", "strip", "keep", None),
               Op("cost_per_kg", "cost_per_kg", "floatreq", "set", None),
               Op("typical_loading_percent", "typical_loading_percent", "float", "keep", None),
               Op("min_stock_kg", "min_stock_kg", "float", "keep", None),
               Op("notes", "notes", "strip", "keep", None)>>]

import_mould ==
    [required |-> <<"mould_number", "num_cavities">>, precheck |-> "",
     lookups |-> <<Query("customer_code", "customers", "code", "upper", TRUE)>>,
     keys |-> <<Query("mould_number", "moulds", "mould_number", "upper", FALSE)>>,
     ops |-> <<Op("mould_number", "mould_number", "upper", "new", None),
               Op("name", "name", "strip", "keep", None),
               Op("num_cavities", "num_cavities", "intreq", "set", None),
               Op("material_type", "material_type", "strip", "keep", None),
               Op("runner_type", "runner_type", "strip", "keep", "cold"),
               Op("customer_code", "customer_id", "ref", "keep", None),
               Op("machine_tonnage_required", "machine_tonnage_required", "int", "keep", None),
               Op("status", "status", "strip", "keep", "active"),
               Op("notes", "notes", "strip", "keep", None)>>]

import_machine ==
    [required |-> <<"code", "name">>, precheck |-> "",
     lookups |-> <<>>,
     keys |-> <<Query("code", "machines", "code", "upper", FALSE)>>,
     ops |-> <<Op("code", "code", "upper", "new", None),
               Op("name", "name", "strip", "set", None),
               Op("machine_type", "machine_type", "strip", "keep", "injection"),
               Op("manufacturer", "manufacturer", "strip", "keep", None),
               Op("tonnage", "tonnage", "int", "keep", None),
               Op("hourly_rate", "hourly_rate", "float", "keep", None),
               Op("status", "status", "strip", "keep", "available"),
               Op("notes", "notes", "strip", "keep", None)>>]

import_location ==
    [required |-> <<"code", "name">>, precheck |-> "",
     lookups |-> <<>>,
     keys |-> <<Query("code", "locations", "code", "upper", FALSE)>>,
     ops |-> <<Op("code", "code", "upper", "new", None),
               Op("name", "name", "strip", "set", None),
               Op("zone", "zone", "strip", "keep", None),
               Op("location_type", "location_type", "strip", "keep", "rack"),
               Op("is_pickable", "is_pickable", "notfalse", "set", None),
               Op("max_weight_kg", "max_weight_kg", "float", "keep", None),
               Op("notes", "notes", "strip", "keep", None)>>]

import_category ==
    [required |-> <<"name">>, precheck |-> "",
     lookups |-> <<>>,
     keys |-> <<Query("name", "categories", "name", "strip", FALSE)>>,
     ops |-> <<Op("name", "name", "strip", "new", None),
               Op("description", "description", "strip", "keep", None),
               Op("category_type", "category_type", "strip", "keep", None)>>]

import_item ==
    [required |-> <<"sku", "name">>, precheck |-> "",
     lookups |-> <<Query("customer_code", "customers", "code", "upper", TRUE),
                   Query("mould_number", "moulds", "mould_number", "upper", TRUE),
                   Query("material_code", "materials", "code", "upper", TRUE),
                   Query("masterbatch_code", "masterbatches", "code", "upper", TRUE)>>,
     keys |-> <<Query("sku", "items", "sku", "upper", FALSE)>>,
     ops |-> <<Op("sku", "sku", "upper", "new", None),
               Op("name", "name", "strip", "set", None),
               Op("description", "description", "strip", "keep", None),
               Op("item_type", "item_type", "strip", "keep", "finished_goods"),
               Op("customer_code", "customer_id", "ref", "keep", None),
               Op("part_weight_grams", "part_weight_grams", "float", "keep", None),
               Op("cavities", "cavities", "int", "keep", "1"),
               Op("material_code", "linked_material_id", "ref", "keep", None),
               Op("masterbatch_code", "linked_masterbatch_id", "ref", "keep", None),
               Op("mould_number", "default_mould_id", "ref", "keep", None),
               Op("min_stock_level", "min_stock_level", "float", "keep", "0.0"),
               Op("notes", "notes", "strip", "keep", None),
               Op("sku", "barcode", "upper", "new", None)>>]

\* import_records' dispatch on data_type
ImportPlan ==
    [customers |-> import_customer, materials |-> import_material,
     suppliers |-> import_supplier, masterbatches |-> import_masterbatch,
     moulds |-> import_mould, machines |-> import_machine,
     locations |-> import_location, items |-> import_item,
     categories |-> import_category]

\* One cell of an exported row: header h, read from attribute a.  fmt "str":
\* the value as csv.writer writes it; "bool": 'TRUE' if a else 'FALSE';
\* "rel": the attr of the related model's row if a is set, else ''; "list":
\* the same for a to-many relationship, which is empty here.
Cell(h, a, fmt, model, attr) ==
    [h |-> h, a |-> a, fmt |-> fmt, model |-> model, attr |-> attr]

Str(h) == Cell(h, h, "str", "", "")

\* the row export_data and export_all_data write for a record of each type,
\* in the order in which the attributes are read
ExportPlan ==
    [customers |-> <<Str("code"), Str("name"), Str("contact_name"), Str("address"),
                     Str("country")>>,
     materials |-> <<Str("code"), Str("name"), Str("material_type"), Str("grade"),
                     Str("color"), Str("cost_per_kg"), Str("mfi"), Str("barrel_temp_min"),
                     Cell("drying_required", "drying_required", "bool", "", "")>>,
     suppliers |-> <<Str("code"), Str("name"), Str("contact_name"), Str("country"),
                     Str("lead_time_days"), Str("minimum_order_kg")>>,
     masterbatches |-> <<Str("code"), Str("name"), Str("masterbatch_type"), Str("color"),
                         Str("color_hex"), Str("cost_per_kg"),
                         Str("typical_loading_percent"), Str("min_stock_kg"), Str("notes")>>,
     moulds |-> <<Cell("customer_code", "customer", "rel", "customers", "code"),
                  Str("mould_number"), Str("name"), Str("num_cavities"),
                  Str("material_type"), Str("runner_type"),
                  Str("machine_tonnage_required"), Str("status"), Str("notes")>>,
     machines |-> <<Str("code"), Str("name"), Str("machine_type"), Str("manufacturer"),
                    Str("tonnage"), Str("hourly_rate"), Str("status"), Str("notes")>>,
     locations |-> <<Str("code"), Str("name"), Str("zone"), Str("location_type"),
                     Cell("is_pickable", "is_pickable", "bool", "", ""),
                     Str("max_weight_kg"), Str("notes")>>,
     items |-> <<Cell("customer_code", "customer_id", "rel", "customers", "code"),
                 Cell("mould_number", "default_mould_id", "rel", "moulds", "mould_number"),
                 Cell("material_code", "linked_material", "list", "materials", "code"),
                 Cell("masterbatch_code", "linked_masterbatch", "list", "masterbatches", "code"),
                 Str("sku"), Str("name"), Str("description"), Str("item_type"),
                 Str("part_weight_grams"), Str("cavities"), Str("min_stock_level"),
                 Str("notes")>>,
     categories |-> <<Str("name"), Str("description"), Str("category_type")>>]

\* CSV_TEMPLATES[t]['headers']
Headers(t) == {ExportPlan[t][k].h : k \in DOMAIN ExportPlan[t]}

\* Query.order_by(...) of the export of each type
OrderBy ==
    [customers |-> "name", materials |-> "code", suppliers |-> "name",
     masterbatches |-> "code", moulds |-> "mould_number", machines |-> "code",
     locations |-> "code", items |-> "sku", categories |-> "name"]

\* ------------------------------------------------------------------ CSV import and export: conversions
\* str.strip() and str.upper() on the cells used here
Strip(s) == IF s = " v" THEN "v" ELSE s

Upper(s) == CASE s = "a" -> "A" [] s = "v" -> "V" [] OTHER -> s

\* int(cell or 0) and float(cell or 0)
ParseInt(s) == CASE s \in {"", "0"} -> "0" [] s = "1" -> "1" [] OTHER -> Err

ParseFloat(s) ==
    CASE s \in {"", "0", "0.0"} -> "0.0" [] s \in {"1", "1.0"} -> "1.0" [] OTHER -> Err

\* the id a lookup by code returns: the tables referred to are kept as the
\* set of their codes, and a row found there is named by its code
Lookup(code) == IF code \in refCodes THEN code ELSE None

\* the right-hand side of an assignment before "or ..."
Convert(op, row) ==
    LET cell == row[op.h]
    IN CASE op.conv = "strip" -> Strip(cell)
         [] op.conv = "upper" -> Upper(Strip(cell))
         [] op.conv = "int" -> ParseInt(cell)
         [] op.conv = "float" -> ParseFloat(cell)
         [] op.conv = "intreq" -> ParseInt(Strip(cell))
         [] op.conv = "floatreq" -> ParseFloat(Strip(cell))
         [] op.conv = "true" -> IF Upper(cell) = "TRUE" THEN "True" ELSE "False"
         [] op.conv = "notfalse" -> IF Upper(cell) # "FALSE" THEN "True" ELSE "False"
         [] op.conv = "ref" -> Lookup(Upper(Strip(cell)))

\* Python truth value of a converted cell
Falsy(op, v) ==
    \/ v \in {"", None}
    \/ op.conv \in {"int", "float"} /\ v \in {"0", "0.0"}

\* ------------------------------------------------------------------ CSV import and export: the session
\* every attribute an import function touches on an instance
Attrs(t) == Mapped(t) \cup {ImportPlan[t].ops[k].a : k \in DOMAIN ImportPlan[t].ops}

\* an instance loaded from a row of the table, and the row it is stored as
Load(t, rec) == [a \in Attrs(t) |-> IF a \in Mapped(t) THEN rec[a] ELSE Unset]

Persist(t, obj) == [a \in Mapped(t) |-> obj[a]]

\* a flush succeeds when no two rows share a value in a unique column
UniqueOK(t, tab) ==
    \A i, j \in DOMAIN tab, u \in UniqueColumns[t] :
        i # j => (tab[i][u] = None \/ tab[i][u] # tab[j][u])

\* the queries a row performs, in order: optional ones only for a non-empty cell
Performed(t, row) ==
    SelectSeq(ImportPlan[t].lookups \o ImportPlan[t].keys,
              LAMBDA q : ~q.optional \/ Upper(Strip(row[q.h])) # "")

\* What the queries of a row do to the session st: filter_by on an attribute
\* the model does not have raises before anything is sent; the first query
\* that is sent flushes the pending changes (autoflush), and a failed flush
\* leaves the session unusable until a rollback.
RunQueries(t, row, st) ==
    LET qs == Performed(t, row)
    IN IF st.poisoned \/ qs[1].attr \notin Mapped(qs[1].model) THEN "raise"
       ELSE IF ~UniqueOK(t, st.tab) THEN "poison"
       ELSE IF \E k \in DOMAIN qs : qs[k].attr \notin Mapped(qs[k].model) THEN "raise"
       ELSE "ok"

\* .first() of the key queries: the matching row with the lowest id, NoId if none
Existing(t, row, tab) ==
    LET key == ImportPlan[t].keys[Len(ImportPlan[t].keys)]
        value == IF key.conv = "upper" THEN Upper(Strip(row[key.h])) ELSE Strip(row[key.h])
        found == {i \in DOMAIN tab : tab[i][key.attr] = value}
    IN IF found = {} THEN NoId ELSE CHOOSE i \in found : \A j \in found : i <= j

\* the update branch, assignment by assignment from the k-th on; ok is FALSE
\* when one of them raised, and obj then keeps the assignments made before
RECURSIVE UpdateOps(_, _, _, _)
RECURSIVE Assign(_, _, _, _, _)
UpdateOps(obj, row, ops, k) ==
    IF k > Len(ops) THEN [obj |-> obj, ok |-> TRUE]
    ELSE Assign(obj, row, ops, k, Convert(ops[k], row))

\* the k-th assignment, v being its converted cell
Assign(obj, row, ops, k, v) ==
    IF ops[k].mode = "new" THEN UpdateOps(obj, row, ops, k + 1)
    ELSE IF v = Err THEN [obj |-> obj, ok |-> FALSE]
    ELSE IF ops[k].mode = "set" \/ ~Falsy(ops[k], v)
         THEN UpdateOps([obj EXCEPT ![ops[k].a] = v], row, ops, k + 1)
    ELSE IF obj[ops[k].a] = Unset THEN [obj |-> obj, ok |-> FALSE]
    ELSE UpdateOps(obj, row, ops, k + 1)

\* the create branch: the constructor call raises when an argument raises or
\* names an attribute the model does not have
CanCreate(t, row) ==
    \A k \in DOMAIN ImportPlan[t].ops :
        Convert(ImportPlan[t].ops[k], row) # Err /\ ImportPlan[t].ops[k].a \in Mapped(t)

Create(t, row) ==
    LET ops == ImportPlan[t].ops
        Value(k) == LET v == Convert(ops[k], row)
                    IN IF ops[k].mode = "keep" /\ Falsy(ops[k], v) THEN ops[k].dflt ELSE v
    IN [a \in Attrs(t) |->
          IF \E k \in DOMAIN ops : ops[k].a = a
          THEN Value(CHOOSE k \in DOMAIN ops : ops[k].a = a)
          ELSE None]

\* the except branch of import_records' loop
Fail(st, i) == [st EXCEPT !.errors = @ + 1, !.msgs = Append(@, i)]

\* the checks of an import function before its first query
Rejected(t, row) ==
    \/ \E k \in DOMAIN ImportPlan[t].required : Strip(row[ImportPlan[t].required[k]]) = ""
    \/ /\ ImportPlan[t].precheck # ""
       /\ ParseFloat(Strip(row[ImportPlan[t].precheck])) = Err

\* the end of the update branch, u being the outcome of its assignments
Updated(st, i, existing, u) ==
    IF u.ok THEN [st EXCEPT !.tab[existing] = u.obj, !.updated = @ + 1]
    ELSE Fail([st EXCEPT !.tab[existing] = u.obj], i)

\* "if existing: ... else: ..."
Branch(t, row, i, st, existing) ==
    IF existing # NoId
    THEN Updated(st, i, existing, UpdateOps(st.tab[existing], row, ImportPlan[t].ops, 1))
    ELSE IF ~CanCreate(t, row) THEN Fail(st, i)
    ELSE [st EXCEPT !.tab = Insert(@, Create(t, row)), !.created = @ + 1]

\* the rest of an import function after its queries, q being their outcome
Queried(t, row, i, st, q) ==
    IF q = "raise" THEN Fail(st, i)
    ELSE IF q = "poison" THEN Fail([st EXCEPT !.poisoned = TRUE], i)
    ELSE Branch(t, row, i, st, Existing(t, row, st.tab))

\* one pass of import_records' loop: row number i of the file
ImportRow(t, row, i, st) ==
    IF Rejected(t, row) THEN Fail(st, i)
    ELSE Queried(t, row, i, st, RunQueries(t, row, st))

RECURSIVE ImportRows(_, _, _, _)
ImportRows(t, rows, k, st) ==
    IF k > Len(rows) THEN st
    ELSE ImportRows(t, rows, k + 1, ImportRow(t, rows[k], k + 1, st))

\* the session at the start of a request
Start(t) ==
    [tab |-> [i \in DOMAIN records |-> Load(t, records[i])],
     poisoned |-> FALSE, created |-> 0, updated |-> 0, errors |-> 0, msgs |-> <<>>]

\* db.session.commit() at the end of import_records.  It raises when the
\* session is unusable or the last flush fails; import_data then rolls back
\* and nothing of the file is stored.
Commit(t, st) ==
    IF st.poisoned \/ ~UniqueOK(t, st.tab)
    THEN [status |-> "failed", table |-> records,
          created |-> 0, updated |-> 0, errors |-> 0, msgs |-> <<>>]
    ELSE [status |-> "done", table |-> [i \in DOMAIN st.tab |-> Persist(t, st.tab[i])],
          created |-> st.created, updated |-> st.updated,
          errors |-> st.errors, msgs |-> st.msgs]

import_records(t, rows) == Commit(t, ImportRows(t, rows, 1, Start(t)))

\* ------------------------------------------------------------------ CSV import and export: files
\* the cells of a code column other than the key that occur in uploaded files
Codes(t) ==
    CASE t = "suppliers" -> {"", "X", "Y"} [] t = "customers" -> {"", "X"} [] OTHER -> {""}

\* the cell of a column other than the key: required columns are always
\* filled in, the others according to fill
Sample(t, op, fill) ==
    LET numeric == op.conv \in {"int", "float", "intreq", "floatreq"}
        required == \E k \in DOMAIN ImportPlan[t].required : ImportPlan[t].required[k] = op.h
    IN IF fill = "bad" /\ numeric THEN "x"
       ELSE IF numeric /\ (required \/ fill \in {"full", "linked"}) THEN "1"
       ELSE IF required THEN (IF op.conv = "upper" THEN "v" ELSE "n")
       ELSE IF fill \in {"empty", "bad"} THEN ""
       ELSE CASE op.conv = "strip" -> " v"
              [] op.conv = "upper" -> "v"
              [] op.conv = "true" -> "TRUE"
              [] op.conv = "notfalse" -> "FALSE"
              [] op.conv = "ref" ->
                   IF fill = "linked" /\ op.a = "customer_id" THEN "" ELSE "A"

\* a row of an uploaded file: key cell k, code cell c, the rest by fill
Row(t, k, c, fill) ==
    LET plan == ImportPlan[t]
        keyHeader == plan.keys[Len(plan.keys)].h
        OpOf(h) == plan.ops[CHOOSE n \in DOMAIN plan.ops : plan.ops[n].h = h]
    IN [h \in Headers(t) |->
          IF h = keyHeader THEN k
          ELSE IF h = "code" /\ Codes(t) # {""} THEN c
          ELSE Sample(t, OpOf(h), fill)]

\* the rows that occur in uploaded files: the key cell is empty or one of two
\* keys that differ in case only
RowsOf(t) ==
    {Row(t, k, "", fill) : k \in {"", "A", "a"}, fill \in {"empty", "full", "linked", "bad"}}
        \cup {Row(t, k, c, "empty") : k \in {"", "A", "a"}, c \in Codes(t)}

Files(t) == UNION {[1..n -> RowsOf(t)] : n \in 0..MaxRows}

\* ------------------------------------------------------------------ CSV import and export: handlers
\* ORDER BY on the values that occur here (SQLite compares text bytewise)
Rank(s) == CASE s = "A" -> 1 [] s = "a" -> 2 [] OTHER -> 0

RECURSIVE Sorted(_, _, _)
Sorted(tab, a, ids) ==
    IF ids = {} THEN <<>>
    ELSE LET Before(i, j) == \/ Rank(tab[i][a]) < Rank(tab[j][a])
                             \/ Rank(tab[i][a]) = Rank(tab[j][a]) /\ i <= j
             first == CHOOSE i \in ids : \A j \in ids : Before(i, j)
         IN <<first>> \o Sorted(tab, a, ids \ {first})

\* the value written under one header for a record, Err when reading it raises
Read(t, c, rec) ==
    IF c.fmt = "list" THEN ""
    ELSE IF c.a \notin Mapped(t) THEN Err
    ELSE IF c.fmt = "rel"
         THEN (IF rec[c.a] = None THEN ""
               ELSE IF c.attr \notin Mapped(c.model) THEN Err ELSE rec[c.a])
    ELSE IF c.fmt = "bool" THEN (IF rec[c.a] = "True" THEN "TRUE" ELSE "FALSE")
    ELSE IF rec[c.a] = None THEN "" ELSE rec[c.a]

\* the export of one type succeeds when the ordering attribute exists and
\* every attribute read from every record exists
CanExport(t, tab) ==
    /\ OrderBy[t] \in Mapped(t)
    /\ \A i \in DOMAIN tab, k \in DOMAIN ExportPlan[t] : Read(t, ExportPlan[t][k], tab[i]) # Err

\* the rows of the exported file, as csv.DictReader gives them back
Export(t, tab) ==
    LET ids == Sorted(tab, OrderBy[t], DOMAIN tab)
        CellOf(h) == ExportPlan[t][CHOOSE k \in DOMAIN ExportPlan[t] : ExportPlan[t][k].h = h]
    IN [n \in 1..Len(ids) |-> [h \in Headers(t) |-> Read(t, CellOf(h), tab[ids[n]])]]

\* the end of import_data, r being what import_records did
Imported(file, r) ==
    /\ records' = r.table
    /\ csv' = file
    /\ origin' = (IF origin = "none" THEN "upload" ELSE origin)
    /\ results' = Append(results, r)
    /\ response' = Resp("import_data",
                        IF r.status = "failed" THEN "failed"
                        ELSE IF r.errors = 0 THEN "success" ELSE "warning")

\* POST /data/import: a new file when none is in hand, else the file in hand
import_data ==
    /\ dataType \in DataTypes
    /\ Len(results) < MaxRuns
    /\ \E req \in {"ok", "not_admin", "bad_type", "no_file"} :
       \E file \in (IF origin = "none" THEN Files(dataType) ELSE {csv}) :
           IF req # "ok"
           THEN /\ response' = Resp("import_data", "error")
                /\ UNCHANGED <<records, csv, origin, results>>
           ELSE Imported(file, import_records(dataType, file))
    /\ UNCHANGED <<stockVars, orders, deliveries, quotes, items, shiftLogs, sessions, prodVars>>
    /\ UNCHANGED <<dataType, refCodes, snapshot>>

\* GET /data/export/<data_type>
export_data ==
    /\ dataType \in DataTypes
    /\ IF CanExport(dataType, records)
       THEN /\ csv' = Export(dataType, records)
            /\ origin' = "export"
            /\ snapshot' = records
            /\ results' = <<>>
            /\ response' = Resp("export_data", "success")
       ELSE /\ response' = Resp("export_data", "failed")
            /\ UNCHANGED <<csv, origin, snapshot, results>>
    /\ UNCHANGED <<stockVars, orders, deliveries, quotes, items, shiftLogs, sessions, prodVars>>
    /\ UNCHANGED <<dataType, records, refCodes>>

\* GET /data/backup: every type in turn; the tables of the other types are empty
export_all_data ==
    /\ dataType \in DataTypes
    /\ \E is_admin \in BOOLEAN :
          IF ~is_admin
          THEN /\ response' = Resp("export_all_data", "error")
               /\ UNCHANGED <<csv, origin, snapshot, results>>
          ELSE IF \A t \in DataTypes : CanExport(t, IF t = dataType THEN records ELSE <<>>)
          THEN /\ csv' = Export(dataType, records)
               /\ origin' = "export"
               /\ snapshot' = records
               /\ results' = <<>>
               /\ response' = Resp("export_all_data", "success")
          ELSE /\ response' = Resp("export_all_data", "failed")
               /\ UNCHANGED <<csv, origin, snapshot, results>>
    /\ UNCHANGED <<stockVars, orders, deliveries, quotes, items, shiftLogs, sessions, prodVars>>
    /\ UNCHANGED <<dataType, records, refCodes>>

\* ------------------------------------------------------------------ costing: numbers
\* Float columns hold exact fractions <<numerator, denominator>> in lowest
\* terms with a positive denominator.  Missing is a column that is NULL
\* (Python None); Raised is what an expression is worth once an exception
\* (ZeroDivisionError, or TypeError on None) has been raised in it.
Missing == <<0, 0>>
Raised == <<1, 0>>

RECURSIVE GCD(_, _)
GCD(a, b) == IF b = 0 THEN a ELSE GCD(b, a % b)

Norm(n, d) ==
    LET g == GCD(IF n < 0 THEN -n ELSE n, IF d < 0 THEN -d ELSE d)
    IN <<(IF d < 0 THEN -n ELSE n) \div g, (IF d < 0 THEN -d ELSE d) \div g>>

Rat(n) == <<n, 1>>

Add(x, y) ==
    IF x[2] = 0 \/ y[2] = 0 THEN Raised
    ELSE Norm(x[1] * (y[2] \div GCD(x[2], y[2])) + y[1] * (x[2] \div GCD(x[2], y[2])),
              x[2] * (y[2] \div GCD(x[2], y[2])))

Mul(x, y) ==
    IF x[2] = 0 \/ y[2] = 0 THEN Raised
    ELSE Norm(x[1] * y[1], x[2] * y[2])

\* x / y: ZeroDivisionError when y is zero
Div(x, y) ==
    IF x[2] = 0 \/ y[2] = 0 \/ y[1] = 0 THEN Raised
    ELSE Norm(x[1] * y[2], x[2] * y[1])

Sub(x, y) == Add(x, Mul(Rat(-1), y))

\* x < y on numbers
Less(x, y) == x[1] * y[2] < y[1] * x[2]

\* Python "not x" and "x or d" on a column value: None and 0 are false
Not(x) == x[1] = 0

OrElse(x, d) == IF Not(x) THEN d ELSE x

\* ------------------------------------------------------------------ costing: Quote.calculate_costs
\* a shot weight that leaves the runner out
ShotWeightOfPart(self) == Div(OrElse(self.part_weight_g, Rat(0)), Rat(1000))

\* total_shot_weight_kg
ShotWeight(self) ==
    Add(Div(OrElse(self.part_weight_g, Rat(0)), Rat(1000)),
        Div(OrElse(self.runner_weight_g, Rat(0)), Rat(1000)))

\* the cavities column as it is stored
CavitiesAsStored(self) == self.cavities

\* cavities = self.cavities or 1
Cavities(self) == OrElse(self.cavities, Rat(1))

\* the fields calculate_costs assigns
CostFields ==
    {"material_cost_per_part", "cycle_cost_per_part", "setup_cost", "setup_cost_per_part",
     "overhead_cost_per_part", "total_cost_per_part", "quoted_price_per_part", "quoted_total"}

\* Quote.calculate_costs: the quote with its cost fields assigned
calculate_costs(self) ==
    LET machine_rate == OrElse(self.machine_rate_per_hour, Rat(0))
        labour_rate == OrElse(self.labour_rate_per_hour, Rat(0))
        material_cost_per_part ==
            Mul(Div(ShotWeight(self), Cavities(self)), OrElse(self.material_cost_per_kg, Rat(0)))
        cycle_time_hours == Div(OrElse(self.cycle_time_seconds, Rat(0)), Rat(3600))
        cycle_cost_per_part ==
            Div(Add(Mul(cycle_time_hours, machine_rate), Mul(cycle_time_hours, labour_rate)),
                Cavities(self))
        setup_cost == Mul(OrElse(self.setup_hours, Rat(0)), Add(machine_rate, labour_rate))
        setup_cost_per_part ==
            IF ~Not(self.quantity) /\ Less(Rat(0), self.quantity)
            THEN Div(setup_cost, self.quantity)
            ELSE Rat(0)
        direct_cost ==
            Add(Add(Add(Add(material_cost_per_part, cycle_cost_per_part), setup_cost_per_part),
                    OrElse(self.secondary_ops_cost, Rat(0))),
                OrElse(self.packaging_cost_per_part, Rat(0)))
        overhead_cost_per_part ==
            Mul(direct_cost, Div(OrElse(self.overhead_percent, Rat(0)), Rat(100)))
        total_cost_per_part == Add(direct_cost, overhead_cost_per_part)
        margin == IF self.target_margin_percent # Missing
                  THEN self.target_margin_percent ELSE Rat(30)
        quoted_price_per_part ==
            IF ~Less(Rat(0), margin) THEN total_cost_per_part
            ELSE IF Less(margin, Rat(100))
                 THEN Div(total_cost_per_part, Sub(Rat(1), Div(margin, Rat(100))))
            ELSE Mul(total_cost_per_part, Rat(2))
    IN [self EXCEPT !.material_cost_per_part = material_cost_per_part,
                    !.cycle_cost_per_part = cycle_cost_per_part,
                    !.setup_cost = setup_cost,
                    !.setup_cost_per_part = setup_cost_per_part,
                    !.overhead_cost_per_part = overhead_cost_per_part,
                    !.total_cost_per_part = total_cost_per_part,
                    !.quoted_price_per_part = quoted_price_per_part,
                    !.quoted_total = Mul(quoted_price_per_part, OrElse(self.quantity, Rat(0)))]

\* the end of quote_recalculate, quote being the recalculated row: an exception
\* in calculate_costs ends the request before the commit
Recalculated(q, quote) ==
    IF \E f \in CostFields : quote[f] = Raised
    THEN /\ response' = Resp("quote_recalculate", "error")
         /\ UNCHANGED quotes
    ELSE /\ quotes' = [quotes EXCEPT ![q] = quote]
         /\ response' = Resp("quote_recalculate", "success")

\* POST /costing/quotes/<id>/recalculate
quote_recalculate ==
    /\ \E q \in DOMAIN quotes : Recalculated(q, calculate_costs(quotes[q]))
    /\ UNCHANGED <<stockVars, orders, deliveries, items, shiftLogs, sessions, dataVars, prodVars>>

\* ------------------------------------------------------------------ costing: Item properties
\* Missing is the None a property returns
calculated_material_cost_per_part(self) ==
    IF Not(self.part_weight_grams) \/ Not(self.material_cost_per_kg) THEN Missing
    ELSE LET runner_share ==
                 Div(OrElse(self.runner_weight_grams, Rat(0)), OrElse(self.cavities, Rat(1)))
             total_weight_g == Add(self.part_weight_grams, runner_share)
         IN Mul(Div(total_weight_g, Rat(1000)), self.material_cost_per_kg)

calculated_cycle_cost_per_part(self) ==
    LET cycle_time == OrElse(self.ideal_cycle_time, self.cycle_time_seconds)
        parts_per_hour == Mul(Div(Rat(3600), cycle_time), OrElse(self.cavities, Rat(1)))
    IN IF Not(cycle_time) \/ Not(self.target_machine_rate) THEN Missing
       ELSE IF parts_per_hour = Raised THEN Raised
       ELSE IF Less(Rat(0), parts_per_hour) THEN Div(self.target_machine_rate, parts_per_hour)
       ELSE Missing

calculated_total_cost_per_part(self) ==
    LET material == OrElse(calculated_material_cost_per_part(self), Rat(0))
        cycle == OrElse(calculated_cycle_cost_per_part(self), Rat(0))
    IN IF ~Not(material) \/ ~Not(cycle) THEN Add(material, cycle) ELSE Missing

calculated_selling_price(self) ==
    LET cost == calculated_total_cost_per_part(self)
        margin == OrElse(self.target_margin_percent, Rat(30))
    IN IF cost = Raised THEN Raised
       ELSE IF Not(cost) THEN Missing
       ELSE IF Less(margin, Rat(100)) THEN Div(cost, Sub(Rat(1), Div(margin, Rat(100))))
       ELSE Mul(cost, Rat(2))

\* reading item.calculated_cycle_cost_per_part
read_cycle_cost ==
    /\ \E i \in DOMAIN items :
           response' = Resp("calculated_cycle_cost_per_part", calculated_cycle_cost_per_part(items[i]))
    /\ UNCHANGED <<stockVars, salesVars, prodVars>>

\* reading item.calculated_selling_price
read_selling_price ==
    /\ \E i \in DOMAIN items :
           response' = Resp("calculated_selling_price", calculated_selling_price(items[i]))
    /\ UNCHANGED <<stockVars, salesVars, prodVars>>

\* ------------------------------------------------------------------ OEE: ShiftLog properties
\* a downtime total that counts breakdowns only
breakdown_minutes_only(self) == OrElse(self.breakdown_minutes, Rat(0))

\* ShiftLog.total_downtime_minutes
total_downtime_minutes(self) ==
    Add(Add(Add(OrElse(self.breakdown_minutes, Rat(0)),
                OrElse(self.setup_changeover_minutes, Rat(0))),
            OrElse(self.material_shortage_minutes, Rat(0))),
        OrElse(self.other_downtime_minutes, Rat(0)))

operating_time_minutes(self) ==
    Sub(OrElse(self.planned_production_minutes, Rat(0)), total_downtime_minutes(self))

availability_percent(self) ==
    IF Not(self.planned_production_minutes) \/ ~Less(Rat(0), self.planned_production_minutes)
    THEN Rat(0)
    ELSE Mul(Div(operating_time_minutes(self), self.planned_production_minutes), Rat(100))

theoretical_output(self) ==
    IF Not(self.ideal_cycle_time_seconds) \/ ~Less(Rat(0), self.ideal_cycle_time_seconds)
    THEN Rat(0)
    ELSE Mul(Div(Mul(operating_time_minutes(self), Rat(60)), self.ideal_cycle_time_seconds),
             OrElse(self.parts_per_cycle, Rat(1)))

performance_percent(self) ==
    IF ~Less(Rat(0), theoretical_output(self)) THEN Rat(0)
    ELSE Mul(Div(OrElse(self.total_parts_produced, Rat(0)), theoretical_output(self)), Rat(100))

quality_percent(self) ==
    IF Not(self.total_parts_produced) \/ ~Less(Rat(0), self.total_parts_produced)
    THEN Rat(0)
    ELSE Mul(Div(OrElse(self.good_parts, Rat(0)), self.total_parts_produced), Rat(100))

oee_percent(self) ==
    Mul(Mul(Mul(Div(availability_percent(self), Rat(100)),
                Div(performance_percent(self), Rat(100))),
            Div(quality_percent(self), Rat(100))),
        Rat(100))

\* GET /costing/oee: the dashboard reads log.oee_percent
oee_dashboard ==
    /\ \E s \in DOMAIN shiftLogs : response' = Resp("oee_percent", oee_percent(shiftLogs[s]))
    /\ UNCHANGED <<stockVars, salesVars, prodVars>>

\* ------------------------------------------------------------------ costing: stored rows
\* the values of the costing columns of a stored quote and of a stored item
QuoteInputs ==
    [part_weight_g : {Missing, Rat(2)},
     runner_weight_g : {Missing, Rat(1)},
     cavities : {Missing} \cup {Rat(n) : n \in 0..MaxCavities},
     material_cost_per_kg : {Missing, Rat(3)},
     cycle_time_seconds : {Missing, Rat(36)},
     machine_rate_per_hour : {Missing, Rat(45)},
     labour_rate_per_hour : {Missing, Rat(15)},
     setup_hours : {Missing, Rat(2)},
     quantity : {Missing, Rat(-1), Rat(0), Rat(MaxQuantity)},
     secondary_ops_cost : {Missing, Rat(1)},
     overhead_percent : {Missing, Rat(20)},
     packaging_cost_per_part : {Missing, Rat(1)},
     target_margin_percent : {Missing, Rat(-10), Rat(0), Rat(30), Rat(100), Rat(150)}]

ItemInputs ==
    [ideal_cycle_time : {Missing, Rat(0), Rat(30)},
     cycle_time_seconds : {Missing, Rat(36)},
     target_machine_rate : {Missing, Rat(0), Rat(45)},
     cavities : {Missing} \cup {Rat(n) : n \in 0..MaxCavities},
     part_weight_grams : {Missing, Rat(2)},
     runner_weight_grams : {Missing, Rat(1)},
     material_cost_per_kg : {Missing, Rat(3)},
     target_margin_percent : {Missing, Rat(0), Rat(30), Rat(100), Rat(150)}]

\* the values of the columns of a stored shift log that its OEE depends on
ShiftInputs ==
    [planned_production_minutes : {Missing, Rat(-60), Rat(0), Rat(480)},
     breakdown_minutes : {Missing, Rat(60), Rat(480)},
     setup_changeover_minutes : {Missing, Rat(30)},
     material_shortage_minutes : {Missing, Rat(30)},
     other_downtime_minutes : {Missing, Rat(30)},
     ideal_cycle_time_seconds : {Missing, Rat(0), Rat(30)},
     parts_per_cycle : {Missing, Rat(0), Rat(2)},
     total_parts_produced : {Missing, Rat(0), Rat(600)},
     good_parts : {Missing, Rat(540)}]

\* ------------------------------------------------------------------ ledger properties
\* what one ledger row contributes to the stock of its item at location l
Contribution(m, l) ==
    IF m.movement_type = "movement"
    THEN (IF m.to_location_id = l THEN m.quantity ELSE 0)
         - (IF m.from_location_id = l THEN m.quantity ELSE 0)
    ELSE IF m.to_location_id = l \/ m.from_location_id = l THEN m.quantity ELSE 0

\* the net effect of the ledger rows of item i at location l
NetEffect(ledger, i, l) ==
    LET rows == {m \in BagToSet(ledger) : m.item_id = i}
        RECURSIVE Sum(_)
        Sum(S) == IF S = {} THEN 0
                  ELSE LET m == CHOOSE x \in S : TRUE
                       IN CopiesIn(m, ledger) * Contribution(m, l) + Sum(S \ {m})
    IN Sum(rows)

\* C1: for every item and location the StockLevel quantity (0 without a row)
\* equals the net effect of the ledger rows of that item at that location,
\* where a 'movement' row counts +quantity at its destination and -quantity at
\* its source and every other row counts its signed quantity at the location
\* it names.
C1_LedgerMatchesStock ==
    \A i \in ItemIds, l \in LocationIds :
        LevelQty(levels, i, l) = NetEffect(movements, i, l)

\* C1 witness: stock was received and then moved: the ledger holds a
\* 'movement' row and both its source and its destination have a level.
C1_Witness ==
    \E m \in BagToSet(movements) :
        /\ m.movement_type = "movement"
        /\ HasLevel(levels, m.item_id, m.from_location_id)
        /\ LevelQty(levels, m.item_id, m.to_location_id) > 0
        /\ BagCardinality(movements) = MaxMovements

\* the handlers that receive, move, remove, ship or book produced stock
BookingHandlers ==
    {"receive_stock", "quick_add_stock", "quick_receive", "move_stock",
     "quick_move_stock", "quick_move", "quick_remove_stock", "dispatch",
     "order_complete", "complete_job", "complete_sorting"}

\* C3: no request handled by a receiving, moving, removing, shipping or
\* production-booking handler lowers a StockLevel quantity to a value below 0
\* (adjust_stock and the deletions are outside the rule).
C3_NeverBelowZero ==
    [][response'.op \in BookingHandlers =>
         \A i \in ItemIds, l \in LocationIds :
            LevelQty(levels', i, l) < LevelQty(levels, i, l)
               => LevelQty(levels', i, l) >= 0]_vars

\* ------------------------------------------------------------------ order properties
\* C2: in every step, each sales order either keeps its status or moves to a
\* status that the valid_transitions table lists for its current status; an
\* archived order therefore keeps its status for ever.
C2_StatusFollowsTable ==
    [][\A o \in DOMAIN orders \cap DOMAIN orders' :
          \/ orders'[o].status = orders[o].status
          \/ /\ orders[o].status \in DOMAIN valid_transitions
             /\ orders'[o].status \in valid_transitions[orders[o].status]]_vars

\* C2 witness: an order went through dispatch (a delivery exists) and was
\* archived by archive_all_completed.
C2_Witness ==
    /\ response = Resp("archive_all_completed", "success")
    /\ \E o \in DOMAIN orders :
          /\ orders[o].status = "archived"
          /\ \E d \in deliveries : d.order_id = o

\* C4: an update_status request whose target is not listed for the order's
\* current status (an empty or unknown target included) is answered with an
\* error and changes no order.
C4_InvalidTargetRejected ==
    [][\A o \in DOMAIN orders, new_status \in StatusInputs :
          (/\ UpdateStatus(o, new_status)
           /\ ~(/\ orders[o].status \in DOMAIN valid_transitions
                /\ new_status \in valid_transitions[orders[o].status]))
          => (response'.result = "error" /\ orders' = orders)]_vars

\* C4 witness: update_status was just rejected on an order that is ready to
\* ship and has a line.
C4_Witness ==
    /\ response = Resp("update_status", "error")
    /\ \E o \in DOMAIN orders :
          orders[o].status = "ready_to_ship" /\ Len(orders[o].lines) > 0

\* C7: the number SalesOrder.generate_order_number would return is the number
\* of no existing order, and the number Delivery.generate_delivery_number
\* would return is the number of no existing delivery.
C7_GeneratedNumbersUnused ==
    /\ ~NumberTaken(orders, generate_order_number(orders))
    /\ \A d \in deliveries : d.delivery_number # generate_delivery_number(deliveries)

\* ------------------------------------------------------------------ import and export properties
\* C5: when an uploaded file is imported a second time, the second run
\* completes, creates nothing, counts as updated every row the first run
\* imported, and leaves the table (row count and field values) as the first
\* run left it.
C5_SecondImportIdempotent ==
    (origin = "upload" /\ Len(results) >= 2 /\ results[1].status = "done") =>
        /\ results[2].status = "done"
        /\ results[2].created = 0
        /\ \A i \in 2..(Len(csv) + 1) :
              (\A k \in DOMAIN results[1].msgs : results[1].msgs[k] # i)
                  => (\A k \in DOMAIN results[2].msgs : results[2].msgs[k] # i)
        /\ Cardinality(DOMAIN results[2].table) = Cardinality(DOMAIN results[1].table)
        /\ results[2].table = results[1].table

\* C6: every import run completes and commits, and counts each row of the
\* file exactly once: created + updated + errors is the number of rows, with
\* one message "Row i" (i from 2) per error.
C6_EveryRowCounted ==
    \A n \in DOMAIN results :
        /\ results[n].status = "done"
        /\ results[n].created + results[n].updated + results[n].errors = Len(csv)
        /\ Len(results[n].msgs) = results[n].errors
        /\ \A k \in DOMAIN results[n].msgs : results[n].msgs[k] \in 2..(Len(csv) + 1)

\* C8: an export (of one type or the full backup) does not fail, and the
\* import of an exported file completes without errors, creates nothing and
\* leaves the table as it was when exported.
C8_ExportImportRoundTrip ==
    /\ response.op \in {"export_data", "export_all_data"} => response.result # "failed"
    /\ (origin = "export" /\ Len(results) >= 1) =>
          /\ results[1].status = "done"
          /\ results[1].errors = 0
          /\ results[1].created = 0
          /\ results[1].table = snapshot

\* ------------------------------------------------------------------ costing properties
\* a column value as a number: NULL counts as 0
Val(x) == IF x = Missing THEN Rat(0) ELSE x

\* C9: the costing arithmetic never divides by zero.  quote_recalculate never
\* ends in an exception; a quote whose cavities is 0 or missing is costed as
\* with one cavity, its setup_cost_per_part is 0 when quantity is missing or
\* not positive, and its price is twice the total cost when the target margin
\* is 100 or more.  Item.calculated_cycle_cost_per_part never raises and is
\* None without a cycle time or a machine rate; Item.calculated_selling_price
\* never raises, is None without a cost and twice the cost when the margin is
\* 100 or more.
C9_NoDivisionByZero ==
    /\ response.op = "quote_recalculate" =>
        /\ response.result = "success"
        /\ \A q \in DOMAIN quotes :
            /\ (quotes[q].cavities \in {Missing, Rat(0)}) =>
                /\ quotes[q].material_cost_per_part =
                       Mul(Div(Add(Val(quotes[q].part_weight_g), Val(quotes[q].runner_weight_g)),
                               Rat(1000)),
                           Val(quotes[q].material_cost_per_kg))
                /\ quotes[q].cycle_cost_per_part =
                       Mul(Div(Val(quotes[q].cycle_time_seconds), Rat(3600)),
                           Add(Val(quotes[q].machine_rate_per_hour),
                               Val(quotes[q].labour_rate_per_hour)))
            /\ (quotes[q].quantity = Missing \/ ~Less(Rat(0), quotes[q].quantity)) =>
                quotes[q].setup_cost_per_part = Rat(0)
            /\ (quotes[q].target_margin_percent # Missing
                    /\ ~Less(quotes[q].target_margin_percent, Rat(100))) =>
                quotes[q].quoted_price_per_part = Mul(Rat(2), quotes[q].total_cost_per_part)
    /\ response.op = "calculated_cycle_cost_per_part" =>
        /\ response.result # Raised
        /\ \A i \in DOMAIN items :
            (\/ Val(items[i].ideal_cycle_time) = Rat(0) /\ Val(items[i].cycle_time_seconds) = Rat(0)
             \/ Val(items[i].target_machine_rate) = Rat(0)) => response.result = Missing
    /\ response.op = "calculated_selling_price" =>
        /\ response.result # Raised
        /\ \A i \in DOMAIN items :
            /\ calculated_total_cost_per_part(items[i]) \in {Missing, Rat(0)} =>
                response.result = Missing
            /\ (calculated_total_cost_per_part(items[i]) \notin {Missing, Rat(0)}
                    /\ ~Less(Val(items[i].target_margin_percent), Rat(100))) =>
                response.result = Mul(Rat(2), calculated_total_cost_per_part(items[i]))

\* a quote with no cavities, no quantity and a margin of 100 has been costed
C9_Witness ==
    /\ response = Resp("quote_recalculate", "success")
    /\ \E q \in DOMAIN quotes :
        /\ quotes[q].cavities = Rat(0)
        /\ quotes[q].quantity = Missing
        /\ quotes[q].target_margin_percent = Rat(100)
        /\ quotes[q].material_cost_per_part # Rat(0)
        /\ quotes[q].quoted_price_per_part # Rat(0)

\* the reference formulas on the inputs of a quote; a missing input counts as
\* 0, cavities of 0 or missing as 1 and a missing margin as 30
RefCavities(self) == IF self.cavities \in {Missing, Rat(0)} THEN Rat(1) ELSE self.cavities

RefRates(self) == Add(Val(self.machine_rate_per_hour), Val(self.labour_rate_per_hour))

RefMaterial(self) ==
    Mul(Div(Div(Add(Val(self.part_weight_g), Val(self.runner_weight_g)), Rat(1000)),
            RefCavities(self)),
        Val(self.material_cost_per_kg))

RefCycle(self) ==
    Div(Mul(Div(Val(self.cycle_time_seconds), Rat(3600)), RefRates(self)), RefCavities(self))

RefSetup(self) == Mul(Val(self.setup_hours), RefRates(self))

RefSetupShare(self) ==
    IF Less(Rat(0), Val(self.quantity)) THEN Div(RefSetup(self), self.quantity) ELSE Rat(0)

RefDirect(self) ==
    Add(RefMaterial(self),
        Add(RefCycle(self),
            Add(RefSetupShare(self),
                Add(Val(self.secondary_ops_cost), Val(self.packaging_cost_per_part)))))

RefOverhead(self) == Div(Mul(RefDirect(self), Val(self.overhead_percent)), Rat(100))

RefTotal(self) == Add(RefDirect(self), RefOverhead(self))

RefMargin(self) ==
    IF self.target_margin_percent = Missing THEN Rat(30) ELSE self.target_margin_percent

RefPrice(self) ==
    IF ~Less(Rat(0), RefMargin(self)) THEN RefTotal(self)
    ELSE IF Less(RefMargin(self), Rat(100))
         THEN Div(Mul(RefTotal(self), Rat(100)), Sub(Rat(100), RefMargin(self)))
    ELSE Add(RefTotal(self), RefTotal(self))

\* C10: after calculate_costs every cost field of the quote equals its
\* reference formula: material cost per part, cycle cost per part, setup cost
\* and its share per part, overhead, total cost per part, quoted price per
\* part (by the three cases of the margin) and quoted total.
C10_CostsFollowFormulas ==
    response = Resp("quote_recalculate", "success") =>
        \A q \in DOMAIN quotes :
            /\ quotes[q].material_cost_per_part = RefMaterial(quotes[q])
            /\ quotes[q].cycle_cost_per_part = RefCycle(quotes[q])
            /\ quotes[q].setup_cost = RefSetup(quotes[q])
            /\ quotes[q].setup_cost_per_part = RefSetupShare(quotes[q])
            /\ quotes[q].overhead_cost_per_part = RefOverhead(quotes[q])
            /\ quotes[q].total_cost_per_part = RefTotal(quotes[q])
            /\ quotes[q].quoted_price_per_part = RefPrice(quotes[q])
            /\ quotes[q].quoted_total = Mul(RefPrice(quotes[q]), Val(quotes[q].quantity))

\* a quote with every input filled in, two cavities and a margin of 30 has
\* been costed
C10_Witness ==
    /\ response = Resp("quote_recalculate", "success")
    /\ \E q \in DOMAIN quotes :
        /\ \A f \in DOMAIN quotes[q] \ CostFields : quotes[q][f] \notin {Missing, Rat(0)}
        /\ quotes[q].cavities = Rat(2)
        /\ quotes[q].target_margin_percent = Rat(30)
        /\ quotes[q].quoted_total # Rat(0)
        /\ quotes[q].overhead_cost_per_part # Rat(0)

\* ------------------------------------------------------------------ OEE properties
\* C11: oee_percent is availability * performance * quality / 10000, with
\* availability = (planned minutes - total downtime) / planned minutes * 100,
\* performance = total parts produced / theoretical output * 100 and
\* quality = good parts / total parts produced * 100, each factor being 0 when
\* its denominator is missing or not positive.
C11_OeeFollowsFormula ==
    response.op = "oee_percent" =>
        \A s \in DOMAIN shiftLogs :
            LET log == shiftLogs[s]
                planned == Val(log.planned_production_minutes)
                downtime == Add(Val(log.breakdown_minutes),
                                Add(Val(log.setup_changeover_minutes),
                                    Add(Val(log.material_shortage_minutes),
                                        Val(log.other_downtime_minutes))))
                ideal == Val(log.ideal_cycle_time_seconds)
                cavities == IF Val(log.parts_per_cycle) = Rat(0) THEN Rat(1) ELSE log.parts_per_cycle
                theoretical == IF Less(Rat(0), ideal)
                               THEN Div(Mul(Mul(Sub(planned, downtime), Rat(60)), cavities), ideal)
                               ELSE Rat(0)
                total == Val(log.total_parts_produced)
                availability == IF Less(Rat(0), planned)
                                THEN Div(Mul(Sub(planned, downtime), Rat(100)), planned)
                                ELSE Rat(0)
                performance == IF Less(Rat(0), theoretical)
                               THEN Div(Mul(total, Rat(100)), theoretical)
                               ELSE Rat(0)
                quality == IF Less(Rat(0), total)
                           THEN Div(Mul(Val(log.good_parts), Rat(100)), total)
                           ELSE Rat(0)
            IN /\ availability_percent(log) = availability
               /\ performance_percent(log) = performance
               /\ quality_percent(log) = quality
               /\ response.result = Div(Mul(Mul(availability, performance), quality), Rat(10000))

\* the OEE of a shift with downtime, output and scrap has been read and is
\* neither 0 nor 100
C11_Witness ==
    /\ response.op = "oee_percent"
    /\ response.result \notin {Rat(0), Rat(100), Raised, Missing}
    /\ \E s \in DOMAIN shiftLogs :
        /\ shiftLogs[s].planned_production_minutes = Rat(480)
        /\ shiftLogs[s].setup_changeover_minutes = Rat(30)
        /\ shiftLogs[s].good_parts = Rat(540)

\* ------------------------------------------------------------------ scheduling properties
\* C12: a production order's status becomes 'in_progress' only from 'planned',
\* whichever handler starts it; in particular a completed order is never set
\* back to 'in_progress'
C12_StartedOnlyFromPlanned ==
    [][\A po \in DOMAIN prodOrders \cap DOMAIN prodOrders' :
          (prodOrders[po].status # "in_progress"
             /\ prodOrders'[po].status = "in_progress")
          => prodOrders[po].status = "planned"]_vars

\* C13: a job whose status is not 'scheduled' stays in the schedule and keeps
\* its machine, date and sequence number
C13_StartedJobStaysPut ==
    [][\A j \in DOMAIN jobs :
          jobs[j].status # "scheduled"
          => /\ j \in DOMAIN jobs'
             /\ jobs'[j].machine_id = jobs[j].machine_id
             /\ jobs'[j].scheduled_date = jobs[j].scheduled_date
             /\ jobs'[j].sequence_order = jobs[j].sequence_order]_vars

\* ------------------------------------------------------------------ stock move properties
MoveOps == {"move_stock", "quick_move_stock", "quick_move"}

\* the stock level rows other than those of item i at the locations in ls
\* are the same rows with the same quantities
OthersKept(i, ls) ==
    \A p \in (DOMAIN levels \cup DOMAIN levels') \ {<<i, l>> : l \in ls} :
        /\ p \in DOMAIN levels
        /\ p \in DOMAIN levels'
        /\ levels'[p] = levels[p]

Recorded(m) == /\ movements' = movements (+) SetToBag({m})
               /\ m.movement_type \in {"movement", "adjustment"}

\* C15: a move or a removal changes a stock level or the ledger only when its
\* quantity is positive, its source holds a stock level of at least that
\* quantity and, for a move, the destination differs from the source; every
\* other request leaves the levels and the ledger as they were
C15_BadRequestRejected ==
    [][(/\ response'.op \in MoveOps \cup {"quick_remove_stock"}
        /\ <<levels, movements>>' # <<levels, movements>>)
        => \E i \in ItemIds, from \in LocationIds, q \in 1 .. MaxQty :
               /\ HasLevel(levels, i, from)
               /\ levels[<<i, from>>] >= q
               /\ IF response'.op = "quick_remove_stock"
                  THEN Recorded(Movement("adjustment", i, 0 - q, from, NoId))
                  ELSE \E to \in LocationIds \ {from} :
                          Recorded(Movement("movement", i, q, from, to))]_vars

C15_Witness ==
    /\ response.op \in MoveOps \cup {"quick_remove_stock"}
    /\ response.result = "error"
    /\ \E p \in DOMAIN levels : levels[p] > 0

\* ------------------------------------------------------------------ dispatch properties
\* C16: on every sales order line the shipped quantity is at least 0 and at
\* most the ordered quantity
C16_ShippedWithinOrdered ==
    \A o \in DOMAIN orders : \A k \in 1 .. Len(orders[o].lines) :
        /\ 0 <= orders[o].lines[k].quantity_shipped
        /\ orders[o].lines[k].quantity_shipped <= orders[o].lines[k].quantity_ordered

\* two dispatches have shipped a line in full
C16_Witness ==
    /\ Cardinality(deliveries) = 2
    /\ \E o \in DOMAIN orders : \E k \in 1 .. Len(orders[o].lines) :
          orders[o].lines[k].quantity_shipped = orders[o].lines[k].quantity_ordered

\* every line of the order row is shipped in full
AllShipped(order) ==
    \A k \in 1 .. Len(order.lines) :
        order.lines[k].quantity_shipped >= order.lines[k].quantity_ordered

ShippedNow(i) ==
    LET RECURSIVE Sum(_, _)
        Sum(o, k) == IF k > Len(orders[o].lines) THEN 0
                     ELSE (IF orders[o].lines[k].item_id = i
                              /\ ~orders[o].lines[k].is_custom_item
                           THEN orders'[o].lines[k].quantity_shipped
                                  - orders[o].lines[k].quantity_shipped
                           ELSE 0) + Sum(o, k + 1)
        RECURSIVE All(_)
        All(S) == IF S = {} THEN 0
                  ELSE LET o == CHOOSE x \in S : TRUE
                       IN Sum(o, 1) + All(S \ {o})
    IN All(DOMAIN orders)

\* C18: a dispatch lowers the total stock of every stock item by exactly the
\* quantity it adds to the shipped quantities of that item's lines
C18_ShippedIsDeducted ==
    [][(response'.op = "dispatch" /\ response'.result = "success")
        => \A i \in ItemIds :
              total_stock(levels, i) - total_stock(levels', i) = ShippedNow(i)]_vars

\* ------------------------------------------------------------------ concurrency properties
\* C19: when every request in flight has committed, each stock level equals
\* the net effect of the ledger rows, which hold a row for every committed
\* request: no request's change to the level is lost
C19_NoLostUpdate ==
    (\A r \in DOMAIN sessions : sessions[r].state = "committed")
    => \A i \in ItemIds, l \in LocationIds :
           LevelQty(levels, i, l) = NetEffect(movements, i, l)

\* ------------------------------------------------------------------ initial states
\* The database right after set-up: the items and locations exist, nothing is
\* in stock and the ledger is empty.  The warehouse starts its day in one of
\* three situations, each reached from the empty database by requests that
\* touch no stock:
\*   desk        nothing is open;
\*   production  production order 1 (item 1, 2 required) was created and
\*               started, and a job for it is scheduled on machine 1;
\*   shipping    sales order 1 was created with one line (2 of item 1) and
\*               set to ready_to_ship.
NoStock ==
    /\ levels = <<>>
    /\ movements = EmptyBag
    /\ response = Resp("none", "none")

OpenProduction ==
    /\ prodOrders = 1 :> [item_id |-> 1, status |-> "in_progress", quantity_required |-> 2,
                          quantity_produced |-> 0, quantity_good |-> 0,
                          sales_order_id |-> NoId]
    /\ jobs = 1 :> [production_order_id |-> 1, machine_id |-> 1, scheduled_date |-> 1,
                    sequence_order |-> 1, status |-> "scheduled"]
    /\ sortings = <<>>

NoProduction ==
    /\ prodOrders = <<>>
    /\ jobs = <<>>
    /\ sortings = <<>>

OpenShipment ==
    /\ orders = 1 :> [status |-> "ready_to_ship", order_number |-> 1,
                      lines |-> <<[item_id |-> 1, is_custom_item |-> FALSE,
                                   quantity_ordered |-> 2, quantity_shipped |-> 0]>>]
    /\ deliveries = {}
    /\ quotes = <<>>
    /\ items = <<>>
    /\ shiftLogs = <<>>
    /\ sessions = <<>>

NoSales ==
    /\ orders = <<>>
    /\ deliveries = {}
    /\ quotes = <<>>
    /\ items = <<>>
    /\ shiftLogs = <<>>
    /\ sessions = <<>>

NoData ==
    /\ dataType = "none"
    /\ records = <<>>
    /\ refCodes = {}
    /\ csv = <<>>
    /\ origin = "none"
    /\ snapshot = <<>>
    /\ results = <<>>

Init ==
    /\ NoStock
    /\ NoData
    /\ \/ NoProduction /\ NoSales
       \/ OpenProduction /\ NoSales
       \/ NoProduction /\ OpenShipment

Next ==
    \/ receive_stock
    \/ quick_add_stock
    \/ quick_receive
    \/ move_stock
    \/ quick_move_stock
    \/ quick_move
    \/ quick_remove_stock
    \/ adjust_stock
    \/ item_delete
    \/ location_delete
    \/ order_complete
    \/ complete_job
    \/ complete_sorting
    \/ dispatch

Spec == Init /\ [][Next]_vars

\* ------------------------------------------------------------------ the sales office
\* The sales office works on order 1, created today and still without lines;
\* item 1 is out of stock or has 2 in stock at location 1 (received before).
InitOrders ==
    /\ \/ levels = <<>> /\ movements = EmptyBag
       \/ /\ levels = <<1, 1>> :> 2
          /\ movements = SetToBag({Movement("receipt", 1, 2, NoId, 1)})
    /\ response = Resp("none", "none")
    /\ orders = 1 :> NewOrder(1)
    /\ deliveries = {}
    /\ quotes = <<>>
    /\ items = <<>>
    /\ shiftLogs = <<>>
    /\ sessions = <<>>
    /\ NoProduction
    /\ NoData

NextOrders ==
    \/ add_line
    \/ remove_line
    \/ update_status
    \/ process_order
    \/ dispatch
    \/ archive_order
    \/ archive_all_completed

SpecOrders == InitOrders /\ [][NextOrders]_vars

\* ------------------------------------------------------------------ order and delivery numbers
\* The order book of one day: empty with one accepted quote waiting, or
\* holding orders 1 and 2 (created today, one line of 2 of item 1 each, set
\* to ready_to_ship) with nothing in stock.
ReadyOrder(n) ==
    [status |-> "ready_to_ship", order_number |-> n,
     lines |-> <<[item_id |-> 1, is_custom_item |-> FALSE,
                  quantity_ordered |-> 2, quantity_shipped |-> 0]>>]

InitNumbers ==
    /\ NoStock
    /\ NoData
    /\ NoProduction
    /\ deliveries = {}
    /\ quotes = 1 :> [status |-> "accepted"]
    /\ items = <<>>
    /\ shiftLogs = <<>>
    /\ sessions = <<>>
    /\ \/ orders = <<>>
       \/ orders = [o \in {1, 2} |-> ReadyOrder(o)]

NextNumbers ==
    \/ order_create
    \/ quote_convert_to_order
    \/ order_delete
    \/ dispatch

SpecNumbers == InitNumbers /\ [][NextNumbers]_vars

\* ------------------------------------------------------------------ the data management page
\* The administrator works on one data type; its table is empty or holds one
\* record entered through the application's form.
InitImport ==
    /\ NoStock
    /\ NoProduction
    /\ NoSales
    /\ dataType \in DataTypes
    /\ records \in {<<>>, 1 :> Columns[dataType]}
    /\ refCodes \in (IF dataType = "items" THEN {{}, {"A"}} ELSE {{}})
    /\ csv = <<>>
    /\ origin = "none"
    /\ snapshot = <<>>
    /\ results = <<>>

NextImport ==
    \/ import_data
    \/ export_data
    \/ export_all_data

SpecImport == InitImport /\ [][NextImport]_vars

\* A quote, an item or a shift log is in the database with any of the values of its costing
\* columns, the cost fields of the quote at their column default 0; of a
\* quote's columns none, a few or all are NULL.
InitQuote ==
    /\ NoStock
    /\ NoProduction
    /\ orders = <<>>
    /\ deliveries = {}
    /\ NoData
    /\ \/ /\ \E inputs \in QuoteInputs :
                /\ Cardinality({f \in DOMAIN inputs : inputs[f] = Missing})
                       \in (0..MaxMissing) \cup {Cardinality(DOMAIN inputs)}
                /\ quotes = 1 :> (inputs @@ [f \in CostFields |-> Rat(0)])
          /\ items = <<>>
          /\ shiftLogs = <<>>
          /\ sessions = <<>>
       \/ /\ quotes = <<>>
          /\ \E inputs \in ItemInputs : items = 1 :> inputs
          /\ shiftLogs = <<>>
          /\ sessions = <<>>
       \/ /\ quotes = <<>>
          /\ items = <<>>
          /\ \E inputs \in ShiftInputs : shiftLogs = 1 :> inputs
          /\ sessions = <<>>

NextQuote ==
    \/ quote_recalculate
    \/ oee_dashboard
    \/ read_cycle_cost
    \/ read_selling_price

SpecQuote == InitQuote /\ [][NextQuote]_vars

\* ------------------------------------------------------------------ the shop floor
\* production order 1 (2 of item 1) has been planned and nothing is scheduled
InitSchedule ==
    /\ NoStock
    /\ NoData
    /\ NoSales
    /\ prodOrders = 1 :> [item_id |-> 1, status |-> "planned", quantity_required |-> 2,
                          quantity_produced |-> 0, quantity_good |-> 0,
                          sales_order_id |-> NoId, machine_id |-> NoId]
    /\ jobs = <<>>
    /\ sortings = <<>>

NextSchedule ==
    \/ order_start
    \/ start_production
    \/ schedule_job
    \/ start_job
    \/ unschedule_job
    \/ move_job
    \/ api_move_job
    \/ order_complete
    \/ complete_job

SpecSchedule == InitSchedule /\ [][NextSchedule]_vars

\* ------------------------------------------------------------------ two requests at once
\* The warehouse is empty, or 1 of item 1 has been received at location 1;
\* up to MaxRequests requests are then handled at the same time.
InitConcurrent ==
    /\ \/ levels = <<>> /\ movements = EmptyBag
       \/ /\ levels = <<1, 1>> :> 1
          /\ movements = SetToBag({Movement("receipt", 1, 1, NoId, 1)})
    /\ response = Resp("none", "none")
    /\ NoSales
    /\ NoProduction
    /\ NoData

NextConcurrent ==
    \/ receive_stock_read
    \/ quick_remove_stock_read
    \/ session_commit

SpecConcurrent == InitConcurrent /\ [][NextConcurrent]_vars

====
